---- MODULE Spec2Model ----
(***************************************************************************)
(* A model of the concurrency engine of malinatrash/funky (package fp):    *)
(* the worker-pool primitives of parallel.go and the Stream values of      *)
(* stream.go.  Every Go function is modelled by its own specification      *)
(* (Init, Next) over the shared variables below; goroutines are processes  *)
(* with a program counter, channels are bounded queues (capacity 0 is a    *)
(* rendezvous), and a select is a nondeterministic choice among its ready   *)
(* cases.                                                                  *)
(***************************************************************************)
EXTENDS Integers, Sequences, FiniteSets, TLC

VARIABLES
    slice,        \* the input slice ([]T), a sequence
    fn,           \* the function argument (mapper / predicate / reducer ...)
    config,       \* ParallelConfig: [WorkerCount, BufferSize]; for Process the
                  \* BatchProcessor's fields: [batchSize, parallelism]
    batches,      \* Process: the batches Chunk returned
    jobs,         \* buffer of the jobs channel
    jobsClosed,   \* close(jobs) has run
    disp,         \* dispatcher goroutine: next index it sends (Len+1: loop over)
    wk,           \* worker goroutines: w |-> [pc, idx, val]
    result,       \* the result slice written by index
    results,      \* FilterParallel: buffer of the results channel;
                  \* ReduceParallel / Process: the per-chunk result slice
    resultsClosed,\* close(results) has run
    resultMap,    \* FilterParallel: index |-> result record
    errors,       \* buffer of the errors channel
    done,         \* close(done) has run
    ctxDone,      \* the context is cancelled (ctx.Done() is closed)
    mainPc,       \* position of the calling goroutine
    ret,          \* what the call returned: [val, isNil, err]
    hist,         \* history of the run (calls made, what had happened at cancel)
    heap,         \* backing arrays of the pipeline slices of the Stream values
    streams,      \* the Stream values returned so far: [arr, len, cap, made]
    lastRun,      \* the stage list the last terminal operation ranged over
    source,       \* the Stream's source: [kind, items]
    stageFn,      \* stage (closure) number |-> what the closure does: [op, arg]
    tasks,        \* goroutines of the running pipeline: [pc, item, count]
    chans,        \* chans[i]: the channel task i sends on: [buf, cap, closed]
    term,         \* the terminal operation: [kind, pc, out, val, runs, first]
    limiter,      \* RateLimiter and its callers: [rps, tokens, pending, ticks,
                  \* waiting, granted, refused, ctxDone]
    pipe          \* Pipeline: [input, data, ops, step]: the sequence it was built
                  \* from, p.data, the transformations applied, the caller's position

poolVars == <<slice, fn, config, batches, jobs, jobsClosed, disp, wk, result, results,
              resultsClosed, resultMap, errors, done, ctxDone, mainPc, ret, hist>>
buildVars == <<heap, streams, lastRun>>
runVars == <<source, stageFn, tasks, chans, term>>
\* everything the worker-pool functions of parallel.go do not touch
restVars == <<buildVars, runVars, limiter, pipe>>
vars == <<poolVars, restVars>>

\* ------------------------------------------------------------------ bounds
MaxLen == 3        \* longest input slice
MaxVal == 2        \* items are 1..MaxVal
MaxWorkers == 3    \* largest WorkerCount
MaxBuffer == 2     \* largest BufferSize

Items == 1..MaxVal
Slices == UNION {[1..n -> Items] : n \in 0..MaxLen}
Configs == [WorkerCount : 1..MaxWorkers, BufferSize : 0..MaxBuffer]

\* the zero value of the element type
Zero == 0
NoRet == [val |-> <<>>, isNil |-> TRUE, err |-> "none"]
NoHist == [calls |-> <<>>]

\* no Stream value exists, no pipeline runs, no RateLimiter and no Pipeline
\* exist (the specifications of the worker-pool functions)
NoRun == [stream |-> 0, stages |-> <<>>]
NoSource == [kind |-> "none", items |-> <<>>]
NoTerm == [kind |-> "none", pc |-> "none", out |-> <<>>, val |-> <<>>, runs |-> 0,
           first |-> <<>>]
NoTasks ==
    /\ source = NoSource /\ stageFn = <<>> /\ tasks = <<>> /\ chans = <<>>
    /\ term = NoTerm
NoLimiter ==
    limiter = [rps |-> 0, tokens |-> 0, pending |-> 0, ticks |-> 0, waiting |-> 0,
               granted |-> 0, refused |-> 0, ctxDone |-> FALSE]
NoPipeline == pipe = [input |-> <<>>, data |-> <<>>, ops |-> <<>>, step |-> "none"]
NoStreams ==
    /\ heap = <<>> /\ streams = <<>> /\ lastRun = NoRun
    /\ NoTasks /\ NoLimiter /\ NoPipeline

\* ---------------------------------------------------------- user functions
Mappers == {"inc", "square", "double"}
Mapper(f, x) ==
    CASE f = "inc" -> x + 1
      [] f = "square" -> x * x
      [] f = "double" -> 2 * x

\* ------------------------------------------------------ sequential Map
Map(s, f) == [i \in 1..Len(s) |-> Mapper(f, s[i])]

\* ------------------------------------------------------ channel helpers
\* a send on a channel of capacity c with buffer q can proceed without a
\* receiver when the buffer has room
CanBuffer(q, c) == Len(q) < c

\* wg.Wait(): every worker has run its deferred wg.Done()
WgDoneEarly == \E w \in DOMAIN wk : wk[w].pc = "done"
WgDone == \A w \in DOMAIN wk : wk[w].pc = "done"

Idle == [pc |-> "recv", idx |-> 0, val |-> Zero]
\* a goroutine that has returned (its deferred wg.Done() has run)
Gone == [pc |-> "done", idx |-> 0, val |-> Zero]

\* The workers of a pool run the same anonymous function and are
\* interchangeable, so the pool is kept sorted by (position, index held): two
\* states that differ only in which worker is where are the same state.
PcRank(pc) ==
    CASE pc = "recv" -> 0
      [] pc \in {"work", "call"} -> 1
      [] pc \in {"send", "senderr"} -> 2
      [] pc = "done" -> 3
WkBefore(a, b) == PcRank(a.pc) * 100 + a.idx < PcRank(b.pc) * 100 + b.idx
Canon(pool) == SortSeq(pool, WkBefore)

\* ================================================= MapParallelWithConfig
MapParInit ==
    /\ slice \in Slices
    /\ fn \in Mappers
    /\ config \in Configs
    /\ jobs = <<>> /\ jobsClosed = FALSE /\ disp = 0
    /\ wk = <<>>
    /\ result = <<>> /\ batches = <<>>
    /\ results = <<>> /\ resultsClosed = FALSE /\ resultMap = <<>>
    /\ errors = <<>> /\ done = FALSE /\ ctxDone = FALSE
    /\ mainPc = "start"
    /\ ret = NoRet
    /\ hist = NoHist
    /\ NoStreams

\* lines 26-28: an empty input returns nil
MapParEmpty ==
    /\ mainPc = "start"
    /\ Len(slice) = 0
    /\ mainPc' = "returned"
    /\ ret' = [val |-> <<>>, isNil |-> TRUE, err |-> "nil"]
    /\ UNCHANGED <<restVars, batches, slice, fn, config, jobs, jobsClosed, disp, wk, result, results,
                   resultsClosed, resultMap, errors, done, ctxDone, hist>>

\* lines 30-32: fewer items than workers: sequential Map
MapParSmall ==
    /\ mainPc = "start"
    /\ Len(slice) # 0
    /\ Len(slice) < config.WorkerCount
    /\ mainPc' = "returned"
    /\ ret' = [val |-> Map(slice, fn), isNil |-> FALSE, err |-> "nil"]
    /\ UNCHANGED <<restVars, batches, slice, fn, config, jobs, jobsClosed, disp, wk, result, results,
                   resultsClosed, resultMap, errors, done, ctxDone, hist>>

\* lines 34-55: allocate result, start the workers and the dispatcher
MapParStart ==
    /\ mainPc = "start"
    /\ Len(slice) # 0
    /\ ~(Len(slice) < config.WorkerCount)
    /\ result' = [i \in 1..Len(slice) |-> Zero]
    /\ wk' = [w \in 1..config.WorkerCount |-> Idle]
    /\ disp' = 1
    /\ hist' = [calls |-> [i \in 1..Len(slice) |-> 0]]
    /\ mainPc' = "wait"
    /\ UNCHANGED <<restVars, batches, slice, fn, config, jobs, jobsClosed, results, resultsClosed,
                   resultMap, errors, done, ctxDone, ret>>

\* line 53, buffered: jobs <- i
MapParSend ==
    /\ disp \in 1..Len(slice)
    /\ CanBuffer(jobs, config.BufferSize)
    /\ jobs' = Append(jobs, disp)
    /\ disp' = disp + 1
    /\ UNCHANGED <<restVars, batches, slice, fn, config, jobsClosed, wk, result, results, resultsClosed,
                   resultMap, errors, done, ctxDone, mainPc, ret, hist>>

\* lines 43 and 53, unbuffered: the send meets a receiving worker
MapParHandoff(w) ==
    /\ disp \in 1..Len(slice)
    /\ config.BufferSize = 0
    /\ wk[w].pc = "recv"
    /\ wk' = Canon([wk EXCEPT ![w] = [pc |-> "work", idx |-> disp, val |-> Zero]])
    /\ disp' = disp + 1
    /\ UNCHANGED <<restVars, batches, slice, fn, config, jobs, jobsClosed, result, results, resultsClosed,
                   resultMap, errors, done, ctxDone, mainPc, ret, hist>>

\* a dispatcher that returns after its loop without closing jobs
MapParLeaveOpen ==
    /\ disp = Len(slice) + 1
    /\ ~jobsClosed
    /\ mainPc # "start"
    /\ disp' = disp + 1
    /\ UNCHANGED <<restVars, batches, slice, fn, config, jobs, jobsClosed, wk, result, results,
                   resultsClosed, resultMap, errors, done, ctxDone, mainPc, ret, hist>>

\* line 51: the deferred close(jobs) after the loop
MapParClose ==
    /\ disp = Len(slice) + 1
    /\ ~jobsClosed
    /\ mainPc # "start"
    /\ jobsClosed' = TRUE
    /\ UNCHANGED <<restVars, batches, slice, fn, config, jobs, disp, wk, result, results, resultsClosed,
                   resultMap, errors, done, ctxDone, mainPc, ret, hist>>

\* a receive that leaves the index in the channel for the next worker
MapParPeek(w) ==
    /\ wk[w].pc = "recv"
    /\ jobs # <<>>
    /\ wk' = Canon([wk EXCEPT ![w] = [pc |-> "work", idx |-> Head(jobs), val |-> Zero]])
    /\ UNCHANGED <<restVars, batches, slice, fn, config, jobs, jobsClosed, disp, result, results,
                   resultsClosed, resultMap, errors, done, ctxDone, mainPc, ret, hist>>

\* line 43: a worker takes the next index from the buffer
MapParRecv(w) ==
    /\ wk[w].pc = "recv"
    /\ jobs # <<>>
    /\ wk' = Canon([wk EXCEPT ![w] = [pc |-> "work", idx |-> Head(jobs), val |-> Zero]])
    /\ jobs' = Tail(jobs)
    /\ UNCHANGED <<restVars, batches, slice, fn, config, jobsClosed, disp, result, results, resultsClosed,
                   resultMap, errors, done, ctxDone, mainPc, ret, hist>>

\* what line 44 stores
MapParWrite(res, idx, v) == [res EXCEPT ![idx] = v]

\* line 44: result[idx] = mapper(slice[idx])
MapParWork(w) ==
    /\ wk[w].pc = "work"
    /\ result' = MapParWrite(result, wk[w].idx, Mapper(fn, slice[wk[w].idx]))
    /\ hist' = [hist EXCEPT !.calls[wk[w].idx] = @ + 1]
    /\ wk' = Canon([wk EXCEPT ![w] = Idle])
    /\ UNCHANGED <<restVars, batches, slice, fn, config, jobs, jobsClosed, disp, results, resultsClosed,
                   resultMap, errors, done, ctxDone, mainPc, ret>>

\* lines 42-43: range over a closed, drained channel ends; wg.Done()
MapParExit(w) ==
    /\ wk[w].pc = "recv"
    /\ jobs = <<>>
    /\ jobsClosed
    /\ wk' = Canon([wk EXCEPT ![w] = Gone])
    /\ UNCHANGED <<restVars, batches, slice, fn, config, jobs, jobsClosed, disp, result, results,
                   resultsClosed, resultMap, errors, done, ctxDone, mainPc, ret, hist>>

\* lines 57-58: wg.Wait(); return result
MapParReturn ==
    /\ mainPc = "wait"
    /\ WgDone
    /\ mainPc' = "returned"
    /\ ret' = [val |-> result, isNil |-> FALSE, err |-> "nil"]
    /\ UNCHANGED <<restVars, batches, slice, fn, config, jobs, jobsClosed, disp, wk, result, results,
                   resultsClosed, resultMap, errors, done, ctxDone, hist>>

MapParNext ==
    \/ MapParEmpty
    \/ MapParSmall
    \/ MapParStart
    \/ MapParSend
    \/ MapParClose
    \/ MapParReturn
    \/ \E w \in DOMAIN wk :
        \/ MapParHandoff(w)
        \/ MapParRecv(w)
        \/ MapParWork(w)
        \/ MapParExit(w)


SpecMapPar == MapParInit /\ [][MapParNext]_vars

\* C1: when MapParallelWithConfig has returned, the returned slice has the
\* input's length and element i is mapper(slice[i]), i.e. it equals the
\* sequential Map(slice, mapper), for every worker count >= 1, every buffer
\* size >= 0 and every interleaving of dispatcher and workers.
C1_MapParallelEqualsMap ==
    mainPc = "returned" =>
        /\ Len(ret.val) = Len(slice)
        /\ \A i \in 1..Len(slice) : ret.val[i] = Mapper(fn, slice[i])
        /\ ret.val = Map(slice, fn)

\* C1 witness: the pool ran (at least two workers, unbuffered or buffered) and
\* the call returned a slice of two or more items.
C1_Witness ==
    /\ mainPc = "returned"
    /\ Len(slice) >= 2
    /\ config.WorkerCount >= 2
    /\ DOMAIN wk # {}
    /\ \A i \in 1..Len(slice) : hist.calls[i] = 1

\* ======================================================== FilterParallel
Predicates == {"even", "odd", "all"}
Predicate(p, x) ==
    CASE p = "even" -> x % 2 = 0
      [] p = "odd" -> x % 2 = 1
      [] p = "all" -> TRUE

\* compose.go, Filter: append the items the predicate accepts, in order
RECURSIVE FilterFrom(_, _, _)
FilterFrom(s, p, i) ==
    IF i > Len(s) THEN <<>>
    ELSE IF Predicate(p, s[i]) THEN <<s[i]>> \o FilterFrom(s, p, i + 1)
    ELSE FilterFrom(s, p, i + 1)
Filter(s, p) == FilterFrom(s, p, 1)

FilterParInit ==
    /\ slice \in Slices
    /\ fn \in Predicates
    /\ config \in Configs
    /\ jobs = <<>> /\ jobsClosed = FALSE /\ disp = 0
    /\ wk = <<>>
    /\ result = <<>> /\ batches = <<>>
    /\ results = <<>> /\ resultsClosed = FALSE /\ resultMap = <<>>
    /\ errors = <<>> /\ done = FALSE /\ ctxDone = FALSE
    /\ mainPc = "start"
    /\ ret = NoRet
    /\ hist = NoHist
    /\ NoStreams

\* lines 63-65
FilterParEmpty ==
    /\ mainPc = "start"
    /\ Len(slice) = 0
    /\ mainPc' = "returned"
    /\ ret' = [val |-> <<>>, isNil |-> TRUE, err |-> "nil"]
    /\ UNCHANGED <<restVars, batches, slice, fn, config, jobs, jobsClosed, disp, wk, result, results,
                   resultsClosed, resultMap, errors, done, ctxDone, hist>>

\* lines 67-69
FilterParSmall ==
    /\ mainPc = "start"
    /\ Len(slice) # 0
    /\ Len(slice) < config.WorkerCount
    /\ mainPc' = "returned"
    /\ ret' = [val |-> Filter(slice, fn), isNil |-> Filter(slice, fn) = <<>>,
               err |-> "nil"]
    /\ UNCHANGED <<restVars, batches, slice, fn, config, jobs, jobsClosed, disp, wk, result, results,
                   resultsClosed, resultMap, errors, done, ctxDone, hist>>

\* lines 77-106: channels, workers, dispatcher, closer
FilterParStart ==
    /\ mainPc = "start"
    /\ Len(slice) # 0
    /\ ~(Len(slice) < config.WorkerCount)
    /\ wk' = [w \in 1..config.WorkerCount |-> Idle]
    /\ disp' = 1
    /\ hist' = [calls |-> [i \in 1..Len(slice) |-> 0]]
    /\ mainPc' = "collect"
    /\ UNCHANGED <<restVars, batches, slice, fn, config, jobs, jobsClosed, result, results, resultsClosed,
                   resultMap, errors, done, ctxDone, ret>>

\* line 98, buffered
FilterParSend ==
    /\ disp \in 1..Len(slice)
    /\ CanBuffer(jobs, config.BufferSize)
    /\ jobs' = Append(jobs, disp)
    /\ disp' = disp + 1
    /\ UNCHANGED <<restVars, batches, slice, fn, config, jobsClosed, wk, result, results, resultsClosed,
                   resultMap, errors, done, ctxDone, mainPc, ret, hist>>

\* lines 86 and 98, unbuffered
FilterParHandoff(w) ==
    /\ disp \in 1..Len(slice)
    /\ config.BufferSize = 0
    /\ wk[w].pc = "recv"
    /\ wk' = Canon([wk EXCEPT ![w] = [pc |-> "work", idx |-> disp, val |-> Zero]])
    /\ disp' = disp + 1
    /\ UNCHANGED <<restVars, batches, slice, fn, config, jobs, jobsClosed, result, results, resultsClosed,
                   resultMap, errors, done, ctxDone, mainPc, ret, hist>>

\* line 96
FilterParClose ==
    /\ disp = Len(slice) + 1
    /\ ~jobsClosed
    /\ mainPc # "start"
    /\ jobsClosed' = TRUE
    /\ UNCHANGED <<restVars, batches, slice, fn, config, jobs, disp, wk, result, results, resultsClosed,
                   resultMap, errors, done, ctxDone, mainPc, ret, hist>>

\* line 86
FilterParRecv(w) ==
    /\ wk[w].pc = "recv"
    /\ jobs # <<>>
    /\ wk' = Canon([wk EXCEPT ![w] = [pc |-> "work", idx |-> Head(jobs), val |-> Zero]])
    /\ jobs' = Tail(jobs)
    /\ UNCHANGED <<restVars, batches, slice, fn, config, jobsClosed, disp, result, results, resultsClosed,
                   resultMap, errors, done, ctxDone, mainPc, ret, hist>>

\* lines 87-88: item := slice[idx]; keep := predicate(item)
FilterParWork(w) ==
    /\ wk[w].pc = "work"
    /\ wk' = Canon([wk EXCEPT ![w] =
                [pc |-> "send", idx |-> wk[w].idx,
                 val |-> [index |-> wk[w].idx, item |-> slice[wk[w].idx],
                          keep |-> Predicate(fn, slice[wk[w].idx])]]])
    /\ hist' = [hist EXCEPT !.calls[wk[w].idx] = @ + 1]
    /\ UNCHANGED <<restVars, batches, slice, fn, config, jobs, jobsClosed, disp, result, results,
                   resultsClosed, resultMap, errors, done, ctxDone, mainPc, ret>>

\* line 89, buffered: results <- result{...}
FilterParPut(w) ==
    /\ wk[w].pc = "send"
    /\ CanBuffer(results, config.BufferSize)
    /\ results' = Append(results, wk[w].val)
    /\ wk' = Canon([wk EXCEPT ![w] = Idle])
    /\ UNCHANGED <<restVars, batches, slice, fn, config, jobs, jobsClosed, disp, result, resultsClosed,
                   resultMap, errors, done, ctxDone, mainPc, ret, hist>>

\* line 111 keyed by arrival position instead of by res.index
FilterParStoreByArrival(m, res) ==
    [i \in DOMAIN m \cup {Cardinality(DOMAIN m) + 1} |->
        IF i = Cardinality(DOMAIN m) + 1 THEN res ELSE m[i]]

\* line 111: resultMap[res.index] = res
FilterParStore(m, res) ==
    [i \in DOMAIN m \cup {res.index} |-> IF i = res.index THEN res ELSE m[i]]

\* lines 89 and 110-111, unbuffered: the worker's send meets the collector
FilterParDeliver(w) ==
    /\ wk[w].pc = "send"
    /\ config.BufferSize = 0
    /\ mainPc = "collect"
    /\ resultMap' = FilterParStore(resultMap, wk[w].val)
    /\ wk' = Canon([wk EXCEPT ![w] = Idle])
    /\ UNCHANGED <<restVars, batches, slice, fn, config, jobs, jobsClosed, disp, result, results,
                   resultsClosed, errors, done, ctxDone, mainPc, ret, hist>>

\* lines 110-111, buffered: the collector takes the next result
FilterParTake ==
    /\ mainPc = "collect"
    /\ results # <<>>
    /\ resultMap' = FilterParStore(resultMap, Head(results))
    /\ results' = Tail(results)
    /\ UNCHANGED <<restVars, batches, slice, fn, config, jobs, jobsClosed, disp, wk, result, resultsClosed,
                   errors, done, ctxDone, mainPc, ret, hist>>

\* lines 85-86
FilterParExit(w) ==
    /\ wk[w].pc = "recv"
    /\ jobs = <<>>
    /\ jobsClosed
    /\ wk' = Canon([wk EXCEPT ![w] = Gone])
    /\ UNCHANGED <<restVars, batches, slice, fn, config, jobs, jobsClosed, disp, result, results,
                   resultsClosed, resultMap, errors, done, ctxDone, mainPc, ret, hist>>

\* lines 103-106: wg.Wait(); close(results)
FilterParCloseResults ==
    /\ mainPc # "start"
    /\ DOMAIN wk # {}
    /\ WgDone
    /\ ~resultsClosed
    /\ resultsClosed' = TRUE
    /\ UNCHANGED <<restVars, batches, slice, fn, config, jobs, jobsClosed, disp, wk, result, results,
                   resultMap, errors, done, ctxDone, mainPc, ret, hist>>

\* lines 114-119: the ordered pass over 0..len-1
RECURSIVE FilterParAssemble(_, _, _)
FilterParAssemble(m, n, i) ==
    IF i > n THEN <<>>
    ELSE IF i \in DOMAIN m /\ m[i].keep
         THEN <<m[i].item>> \o FilterParAssemble(m, n, i + 1)
         ELSE FilterParAssemble(m, n, i + 1)

\* lines 110-121: the range over results ends; assemble and return
FilterParReturn ==
    /\ mainPc = "collect"
    /\ results = <<>>
    /\ resultsClosed
    /\ mainPc' = "returned"
    /\ LET filtered == FilterParAssemble(resultMap, Len(slice), 1)
       IN  ret' = [val |-> filtered, isNil |-> filtered = <<>>, err |-> "nil"]
    /\ UNCHANGED <<restVars, batches, slice, fn, config, jobs, jobsClosed, disp, wk, result, results,
                   resultsClosed, resultMap, errors, done, ctxDone, hist>>

FilterParNext ==
    \/ FilterParEmpty
    \/ FilterParSmall
    \/ FilterParStart
    \/ FilterParSend
    \/ FilterParClose
    \/ FilterParTake
    \/ FilterParCloseResults
    \/ FilterParReturn
    \/ \E w \in DOMAIN wk :
        \/ FilterParHandoff(w)
        \/ FilterParRecv(w)
        \/ FilterParWork(w)
        \/ FilterParPut(w)
        \/ FilterParDeliver(w)
        \/ FilterParExit(w)

SpecFilterPar == FilterParInit /\ [][FilterParNext]_vars

\* C2: when FilterParallel has returned, the returned slice is exactly the
\* items of the input that satisfy the predicate, in their original relative
\* order (equal to sequential Filter), whatever order the workers finished in.
C2_FilterParallelEqualsFilter ==
    mainPc = "returned" => ret.val = Filter(slice, fn)

\* C2 witness: the pool ran with two or more workers, every index was
\* evaluated, some item was kept and some dropped.
C2_Witness ==
    /\ mainPc = "returned"
    /\ config.WorkerCount >= 2
    /\ DOMAIN wk # {}
    /\ DOMAIN resultMap = 1..Len(slice)
    /\ \E i, j \in 1..Len(slice) : resultMap[i].keep /\ ~resultMap[j].keep
    /\ Len(ret.val) >= 1

\* ======================================================== ReduceParallel
MaxReduceLen == 5  \* longest input of ReduceParallel

ReduceSlices == UNION {[1..n -> Items] : n \in 0..MaxReduceLen}

\* reducers with the identity value handed to the call: four associative
\* operators with their neutral element ("first" is not commutative), addition
\* with an identity that is not neutral, and an operator with a neutral
\* element that is not associative
Reducers == {[op |-> "add", identity |-> 0], [op |-> "mul", identity |-> 1],
             [op |-> "max", identity |-> 0], [op |-> "first", identity |-> 0],
             [op |-> "add", identity |-> 1], [op |-> "weighted", identity |-> 0]}
Reducer(f, a, b) ==
    CASE f.op = "add" -> a + b
      [] f.op = "mul" -> a * b
      [] f.op = "max" -> IF a >= b THEN a ELSE b
      [] f.op = "first" -> IF a = 0 THEN b ELSE a
      [] f.op = "weighted" -> IF a = 0 THEN b ELSE IF b = 0 THEN a ELSE a + 2 * b

IsNeutral(f) ==
    \A x \in Items \cup {f.identity} :
        Reducer(f, f.identity, x) = x /\ Reducer(f, x, f.identity) = x
IsAssociative(f) ==
    \A x, y, z \in Items \cup {f.identity} :
        Reducer(f, Reducer(f, x, y), z) = Reducer(f, x, Reducer(f, y, z))

\* reduce.go, Reduce: the left fold
RECURSIVE FoldFrom(_, _, _, _)
FoldFrom(s, f, acc, i) ==
    IF i > Len(s) THEN acc ELSE FoldFrom(s, f, Reducer(f, acc, s[i]), i + 1)
Reduce(s, f, initial) == FoldFrom(s, f, initial, 1)

\* collections.go, Chunk without its last, shorter chunk
RECURSIVE ChunkWholeFrom(_, _, _)
ChunkWholeFrom(s, size, i) ==
    IF i + size > Len(s) + 1 THEN <<>>
    ELSE <<SubSeq(s, i, i + size - 1)>> \o ChunkWholeFrom(s, size, i + size)
ChunkDropTail(s, size) == IF size <= 0 THEN <<>> ELSE ChunkWholeFrom(s, size, 1)

\* collections.go, Chunk: runs of `size` items, the last one possibly shorter
\* (i counts from 1 here, from 0 in the source)
RECURSIVE ChunkFrom(_, _, _)
ChunkFrom(s, size, i) ==
    IF i > Len(s) THEN <<>>
    ELSE LET end == IF i + size - 1 > Len(s) THEN Len(s) ELSE i + size - 1
         IN  <<SubSeq(s, i, end)>> \o ChunkFrom(s, size, i + size)
Chunk(s, size) == IF size <= 0 THEN <<>> ELSE ChunkFrom(s, size, 1)

ReduceParInit ==
    /\ slice \in ReduceSlices
    /\ fn \in Reducers
    /\ config \in Configs
    /\ jobs = <<>> /\ jobsClosed = FALSE /\ disp = 0
    /\ wk = <<>>
    /\ result = <<>> /\ batches = <<>>
    /\ results = <<>> /\ resultsClosed = FALSE /\ resultMap = <<>>
    /\ errors = <<>> /\ done = FALSE /\ ctxDone = FALSE
    /\ mainPc = "start"
    /\ ret = NoRet
    /\ hist = NoHist
    /\ NoStreams

\* lines 126-128
ReduceParEmpty ==
    /\ mainPc = "start"
    /\ Len(slice) = 0
    /\ mainPc' = "returned"
    /\ ret' = [val |-> fn.identity, isNil |-> FALSE, err |-> "nil"]
    /\ UNCHANGED <<restVars, batches, slice, fn, config, jobs, jobsClosed, disp, wk, result, results,
                   resultsClosed, resultMap, errors, done, ctxDone, hist>>

\* lines 130-132
ReduceParSingle ==
    /\ mainPc = "start"
    /\ Len(slice) = 1
    /\ mainPc' = "returned"
    /\ ret' = [val |-> slice[1], isNil |-> FALSE, err |-> "nil"]
    /\ UNCHANGED <<restVars, batches, slice, fn, config, jobs, jobsClosed, disp, wk, result, results,
                   resultsClosed, resultMap, errors, done, ctxDone, hist>>

\* lines 134-140: the fold written out in place
ReduceParSmall ==
    /\ mainPc = "start"
    /\ Len(slice) > 1
    /\ Len(slice) < config.WorkerCount
    /\ mainPc' = "returned"
    /\ ret' = [val |-> FoldFrom(slice, fn, fn.identity, 1), isNil |-> FALSE,
               err |-> "nil"]
    /\ UNCHANGED <<restVars, batches, slice, fn, config, jobs, jobsClosed, disp, wk, result, results,
                   resultsClosed, resultMap, errors, done, ctxDone, hist>>

\* lines 143-146
ReduceParChunkSize(n, w) == IF n \div w = 0 THEN 1 ELSE n \div w

\* lines 143-163: split into chunks, start one task per chunk; wk[i].val
\* holds the chunk handed to task i
ReduceParStart ==
    /\ mainPc = "start"
    /\ Len(slice) > 1
    /\ ~(Len(slice) < config.WorkerCount)
    /\ LET chunks == Chunk(slice, ReduceParChunkSize(Len(slice), config.WorkerCount))
       IN  /\ results' = [i \in 1..Len(chunks) |-> Zero]
           /\ wk' = [i \in 1..Len(chunks) |->
                        [pc |-> "work", idx |-> i, val |-> chunks[i]]]
    /\ hist' = [calls |-> [i \in 1..Len(slice) |-> 0]]
    /\ mainPc' = "wait"
    /\ UNCHANGED <<restVars, batches, slice, fn, config, jobs, jobsClosed, disp, result, resultsClosed,
                   resultMap, errors, done, ctxDone, ret>>

\* lines 156-161: task i folds its chunk from identity and stores the result
ReduceParFold(i) ==
    /\ wk[i].pc = "work"
    /\ results' = [results EXCEPT ![wk[i].idx] =
                        FoldFrom(wk[i].val, fn, fn.identity, 1)]
    /\ wk' = [wk EXCEPT ![i].pc = "done"]
    /\ UNCHANGED <<restVars, batches, slice, fn, config, jobs, jobsClosed, disp, result, resultsClosed,
                   resultMap, errors, done, ctxDone, mainPc, ret, hist>>

\* lines 165-173: wg.Wait(); fold the chunk results left to right
ReduceParReturn ==
    /\ mainPc = "wait"
    /\ WgDone
    /\ mainPc' = "returned"
    /\ ret' = [val |-> FoldFrom(results, fn, fn.identity, 1), isNil |-> FALSE,
               err |-> "nil"]
    /\ UNCHANGED <<restVars, batches, slice, fn, config, jobs, jobsClosed, disp, wk, result, results,
                   resultsClosed, resultMap, errors, done, ctxDone, hist>>

ReduceParNext ==
    \/ ReduceParEmpty
    \/ ReduceParSingle
    \/ ReduceParSmall
    \/ ReduceParStart
    \/ ReduceParReturn
    \/ \E i \in DOMAIN wk : ReduceParFold(i)

SpecReducePar == ReduceParInit /\ [][ReduceParNext]_vars

\* C3: for an associative operator handed its neutral element as identity,
\* ReduceParallel returns exactly the sequential left fold
\* Reduce(slice, op, identity), for every length (0 and 1 included) and every
\* worker count >= 1.
C3_ReduceParallelEqualsReduce ==
    (mainPc = "returned" /\ IsAssociative(fn) /\ IsNeutral(fn)) =>
        ret.val = Reduce(slice, fn, fn.identity)

\* without the preconditions of C3 the equality fails
C3_AnyOperator == mainPc = "returned" => ret.val = Reduce(slice, fn, fn.identity)
C3_NeutralOnly ==
    (mainPc = "returned" /\ IsNeutral(fn)) => ret.val = Reduce(slice, fn, fn.identity)

\* C3 witness: a call that split the input into chunks of unequal length under
\* a non-commutative operator and returned.
C3_Witness ==
    /\ mainPc = "returned"
    /\ IsAssociative(fn) /\ IsNeutral(fn)
    /\ fn.op = "first"
    /\ Len(wk) >= 2
    /\ \E i, j \in DOMAIN wk : Len(wk[i].val) # Len(wk[j].val)

\* ================================================ Stream: building values
MaxStreams == 6    \* Stream values built in one run

\* a stage is the closure a stage-adding call created, named by the number of
\* the call; an unused array element is 0
NoStage == 0

\* no call of parallel.go is running (the specifications of stream.go)
NoPool ==
    /\ slice = <<>> /\ fn = "none" /\ config = [WorkerCount |-> 1, BufferSize |-> 0]
    /\ jobs = <<>> /\ jobsClosed = FALSE /\ disp = 0
    /\ wk = <<>>
    /\ result = <<>> /\ batches = <<>>
    /\ results = <<>> /\ resultsClosed = FALSE /\ resultMap = <<>>
    /\ errors = <<>> /\ done = FALSE /\ ctxDone = FALSE
    /\ mainPc = "none"
    /\ ret = NoRet
    /\ hist = NoHist

\* s.pipeline as a Go slice value reads it: the first len elements of its array
Pipeline(s) == [i \in 1..s.len |-> heap[s.arr][i]]

\* lines 15-29, NewStream: pipeline is the empty literal (len 0, cap 0, no array)
StreamBuildInit ==
    /\ NoPool
    /\ heap = <<>>
    /\ streams = <<[arr |-> 0, len |-> 0, cap |-> 0, made |-> <<>>]>>
    /\ lastRun = NoRun
    /\ NoTasks /\ NoLimiter /\ NoPipeline

\* the capacity append allocates when the array is full (Go's growslice for
\* an append of one element to a small slice: 0, 1, 2, 4, 8, ...)
GrowCap(oldCap) == IF oldCap = 0 THEN 1 ELSE 2 * oldCap

\* newPipeline := append(s.pipeline, stage); return &Stream{source, newPipeline}:
\* with spare capacity the element after s.len of the SHARED array is
\* overwritten, otherwise a larger array is allocated and the stages copied
AppendStage(s, stage) ==
    IF s.len < s.cap
    THEN /\ heap' = [heap EXCEPT ![s.arr][s.len + 1] = stage]
         /\ streams' = Append(streams,
                         [arr |-> s.arr, len |-> s.len + 1, cap |-> s.cap,
                          made |-> Append(Pipeline(s), stage)])
    ELSE /\ heap' = Append(heap, [i \in 1..GrowCap(s.cap) |->
                                    IF i <= s.len THEN heap[s.arr][i]
                                    ELSE IF i = s.len + 1 THEN stage ELSE NoStage])
         /\ streams' = Append(streams,
                         [arr |-> Len(heap) + 1, len |-> s.len + 1,
                          cap |-> GrowCap(s.cap),
                          made |-> Append(Pipeline(s), stage)])

\* a stage-adding method called on the k-th Stream value
AddStage(k) ==
    /\ Len(streams) < MaxStreams
    /\ AppendStage(streams[k], Len(streams))
    /\ UNCHANGED <<poolVars, lastRun, runVars, limiter, pipe>>

StreamMapOp(k) == AddStage(k)
StreamFilterOp(k) == AddStage(k)
StreamTakeOp(k) == AddStage(k)
StreamSkipOp(k) == AddStage(k)
StreamDistinctOp(k) == AddStage(k)
StreamDistinctComparableOp(k) == AddStage(k)
StreamParallelOp(k) == AddStage(k)
StreamBufferOp(k) == AddStage(k)
StreamWithContextOp(k) == AddStage(k)

\* lines 289-295 (and the same loop of every terminal operation): the stages
\* applied are those s.pipeline holds at the time of the call
StreamTerminal(k) ==
    /\ lastRun' = [stream |-> k, stages |-> Pipeline(streams[k])]
    /\ UNCHANGED <<poolVars, heap, streams, runVars, limiter, pipe>>

StreamBuildNext ==
    \E k \in DOMAIN streams :
        \/ StreamMapOp(k)
        \/ StreamFilterOp(k)
        \/ StreamTakeOp(k)
        \/ StreamSkipOp(k)
        \/ StreamDistinctOp(k)
        \/ StreamDistinctComparableOp(k)
        \/ StreamParallelOp(k)
        \/ StreamBufferOp(k)
        \/ StreamWithContextOp(k)
        \/ StreamTerminal(k)

SpecStreamBuild == StreamBuildInit /\ [][StreamBuildNext]_vars

\* C4: a stage-adding call never changes the stage list of a Stream returned
\* earlier: whatever was derived from any Stream in between, a terminal
\* operation on a Stream value runs exactly the stages that value had when it
\* was returned (its parent's stages followed by its own added stage).
C4_StagesNeverChange ==
    lastRun.stream # 0 => lastRun.stages = streams[lastRun.stream].made

\* ======================================================== MapWithContext
MaxCtxLen == 3     \* longest input of MapWithContext
MaxCtxWorkers == 3 \* largest WorkerCount of MapWithContext
MaxCtxBuffer == 1  \* largest BufferSize of MapWithContext

\* the inputs: items n, n-1, ..., 1 (distinct, none equal to its index)
CtxSlices == {[i \in 1..n |-> n + 1 - i] : n \in 0..MaxCtxLen}

\* the mapper: fn.fail is the set of indices whose item it fails on; it is
\* handed the context and may also fail with ctx.Err() once that is cancelled
NoCtxHist == [calls |-> <<>>, failed |-> {}, early |-> FALSE, ctxAtReturn |-> FALSE]

MapCtxInit ==
    /\ slice \in CtxSlices
    /\ fn \in [mapper : {"inc"}, fail : SUBSET (1..Len(slice))]
    /\ config \in [WorkerCount : 1..MaxCtxWorkers, BufferSize : 0..MaxCtxBuffer]
    /\ jobs = <<>> /\ jobsClosed = FALSE /\ disp = 0
    /\ wk = <<>>
    /\ result = <<>> /\ batches = <<>>
    /\ results = <<>> /\ resultsClosed = FALSE /\ resultMap = <<>>
    /\ errors = <<>> /\ done = FALSE /\ ctxDone = FALSE
    /\ mainPc = "start"
    /\ ret = NoRet
    /\ hist = NoCtxHist
    /\ NoStreams

\* the caller's cancel() or the deadline, at any time before or during the
\* call; hist.early: no mapper call had completed by then
MapCtxCancel ==
    /\ ~ctxDone
    /\ mainPc # "returned"
    /\ ctxDone' = TRUE
    /\ hist' = [hist EXCEPT !.early = \A i \in DOMAIN hist.calls : hist.calls[i] = 0]
    /\ UNCHANGED <<restVars, batches, slice, fn, config, jobs, jobsClosed, disp, wk, result,
                   results, resultsClosed, resultMap, errors, done, mainPc, ret>>

\* lines 251-253
MapCtxEmpty ==
    /\ mainPc = "start"
    /\ Len(slice) = 0
    /\ mainPc' = "returned"
    /\ ret' = [val |-> <<>>, isNil |-> TRUE, err |-> "nil"]
    /\ hist' = [hist EXCEPT !.ctxAtReturn = ctxDone]
    /\ UNCHANGED <<restVars, batches, slice, fn, config, jobs, jobsClosed, disp, wk, result,
                   results, resultsClosed, resultMap, errors, done, ctxDone>>

\* lines 255-304: result, channels, workers, dispatcher, watcher
MapCtxStart ==
    /\ mainPc = "start"
    /\ Len(slice) # 0
    /\ result' = [i \in 1..Len(slice) |-> Zero]
    /\ wk' = [w \in 1..config.WorkerCount |-> Idle]
    /\ disp' = 1
    /\ hist' = [hist EXCEPT !.calls = [i \in 1..Len(slice) |-> 0]]
    /\ mainPc' = "select"
    /\ UNCHANGED <<restVars, batches, slice, fn, config, jobs, jobsClosed, results,
                   resultsClosed, resultMap, errors, done, ctxDone, ret>>

\* line 292, buffered: jobs <- i
MapCtxSend ==
    /\ disp \in 1..Len(slice)
    /\ ~jobsClosed
    /\ CanBuffer(jobs, config.BufferSize)
    /\ jobs' = Append(jobs, disp)
    /\ disp' = disp + 1
    /\ UNCHANGED <<restVars, batches, slice, fn, config, jobsClosed, wk, result, results,
                   resultsClosed, resultMap, errors, done, ctxDone, mainPc, ret, hist>>

\* lines 267 and 292, unbuffered: the send meets a worker in its select
MapCtxHandoff(w) ==
    /\ disp \in 1..Len(slice)
    /\ ~jobsClosed
    /\ config.BufferSize = 0
    /\ wk[w].pc = "recv"
    /\ wk' = Canon([wk EXCEPT ![w] = [pc |-> "call", idx |-> disp, val |-> Zero]])
    /\ disp' = disp + 1
    /\ UNCHANGED <<restVars, batches, slice, fn, config, jobs, jobsClosed, result, results,
                   resultsClosed, resultMap, errors, done, ctxDone, mainPc, ret, hist>>

\* lines 293-294 and 289: the dispatcher's select takes ctx.Done(), returns,
\* and the deferred close(jobs) runs with indices still unsent
MapCtxDispCancel ==
    /\ disp \in 1..Len(slice)
    /\ ~jobsClosed
    /\ ctxDone
    /\ jobsClosed' = TRUE
    /\ UNCHANGED <<restVars, batches, slice, fn, config, jobs, disp, wk, result, results,
                   resultsClosed, resultMap, errors, done, ctxDone, mainPc, ret, hist>>

\* line 289: the loop is over, close(jobs)
MapCtxClose ==
    /\ disp = Len(slice) + 1
    /\ ~jobsClosed
    /\ jobsClosed' = TRUE
    /\ UNCHANGED <<restVars, batches, slice, fn, config, jobs, disp, wk, result, results,
                   resultsClosed, resultMap, errors, done, ctxDone, mainPc, ret, hist>>

\* line 267: the worker's select takes an index from the buffer
MapCtxRecv(w) ==
    /\ wk[w].pc = "recv"
    /\ jobs # <<>>
    /\ wk' = Canon([wk EXCEPT ![w] = [pc |-> "call", idx |-> Head(jobs), val |-> Zero]])
    /\ jobs' = Tail(jobs)
    /\ UNCHANGED <<restVars, batches, slice, fn, config, jobsClosed, disp, result, results,
                   resultsClosed, resultMap, errors, done, ctxDone, mainPc, ret, hist>>

\* lines 267-270: the select takes the closed, drained channel: return
MapCtxExit(w) ==
    /\ wk[w].pc = "recv"
    /\ jobs = <<>>
    /\ jobsClosed
    /\ wk' = Canon([wk EXCEPT ![w] = Gone])
    /\ UNCHANGED <<restVars, batches, slice, fn, config, jobs, jobsClosed, disp, result,
                   results, resultsClosed, resultMap, errors, done, ctxDone, mainPc,
                   ret, hist>>

\* line 279: the select takes ctx.Done()
MapCtxSeeCancel(w) ==
    /\ wk[w].pc = "recv"
    /\ ctxDone
    /\ wk' = Canon([wk EXCEPT ![w] = [pc |-> "senderr", idx |-> 0, val |-> "ctx"]])
    /\ UNCHANGED <<restVars, batches, slice, fn, config, jobs, jobsClosed, disp, result,
                   results, resultsClosed, resultMap, errors, done, ctxDone, mainPc,
                   ret, hist>>

\* lines 272 and 277: the mapper returns a value, stored at result[idx]
MapCtxCallOk(w) ==
    /\ wk[w].pc = "call"
    /\ wk[w].idx \notin fn.fail
    /\ result' = [result EXCEPT ![wk[w].idx] = Mapper(fn.mapper, slice[wk[w].idx])]
    /\ wk' = Canon([wk EXCEPT ![w] = Idle])
    /\ hist' = [hist EXCEPT !.calls[wk[w].idx] = @ + 1]
    /\ UNCHANGED <<restVars, batches, slice, fn, config, jobs, jobsClosed, disp, results,
                   resultsClosed, resultMap, errors, done, ctxDone, mainPc, ret>>

\* lines 272-273: the mapper returns an error: its own on an item it fails
\* on, or ctx.Err() when it watches a cancelled context
MapCtxCallErr(w) ==
    /\ wk[w].pc = "call"
    /\ \/ /\ wk[w].idx \in fn.fail
          /\ wk' = Canon([wk EXCEPT ![w] = [pc |-> "senderr", idx |-> wk[w].idx,
                                      val |-> "mapper"]])
       \/ /\ ctxDone
          /\ wk' = Canon([wk EXCEPT ![w] = [pc |-> "senderr", idx |-> 0,
                                      val |-> "ctx"]])
    /\ hist' = [hist EXCEPT !.calls[wk[w].idx] = @ + 1,
                            !.failed = @ \cup {wk[w].idx}]
    /\ UNCHANGED <<restVars, batches, slice, fn, config, jobs, jobsClosed, disp, result,
                   results, resultsClosed, resultMap, errors, done, ctxDone, mainPc,
                   ret>>

\* the worker returns on an error without recording it
MapCtxSendErrDropped(w) ==
    /\ wk[w].pc = "senderr"
    /\ wk' = Canon([wk EXCEPT ![w] = Gone])
    /\ UNCHANGED <<restVars, batches, slice, fn, config, jobs, jobsClosed, disp, result,
                   results, resultsClosed, resultMap, errors, done, ctxDone, mainPc,
                   ret, hist>>

\* lines 274-275 and 280-281: errors <- err (capacity len(slice)); return
MapCtxSendErr(w) ==
    /\ wk[w].pc = "senderr"
    /\ CanBuffer(errors, Len(slice))
    /\ errors' = Append(errors, wk[w].val)
    /\ wk' = Canon([wk EXCEPT ![w] = Gone])
    /\ UNCHANGED <<restVars, batches, slice, fn, config, jobs, jobsClosed, disp, result,
                   results, resultsClosed, resultMap, done, ctxDone, mainPc, ret, hist>>

\* lines 301-304: wg.Wait(); close(done)
MapCtxWatcher ==
    /\ mainPc \notin {"start", "none"}
    /\ DOMAIN wk # {}
    /\ WgDone
    /\ ~done
    /\ done' = TRUE
    /\ UNCHANGED <<restVars, batches, slice, fn, config, jobs, jobsClosed, disp, wk, result,
                   results, resultsClosed, resultMap, errors, ctxDone, mainPc, ret, hist>>

\* lines 306-307: the caller's select takes done
MapCtxMainDone ==
    /\ mainPc = "select"
    /\ done
    /\ mainPc' = "drain"
    /\ UNCHANGED <<restVars, batches, slice, fn, config, jobs, jobsClosed, disp, wk, result,
                   results, resultsClosed, resultMap, errors, done, ctxDone, ret, hist>>

\* lines 308-310: after done, an error is waiting: return nil, err
MapCtxDrainErr ==
    /\ mainPc = "drain"
    /\ errors # <<>>
    /\ mainPc' = "returned"
    /\ ret' = [val |-> <<>>, isNil |-> TRUE, err |-> Head(errors)]
    /\ errors' = Tail(errors)
    /\ hist' = [hist EXCEPT !.ctxAtReturn = ctxDone]
    /\ UNCHANGED <<restVars, batches, slice, fn, config, jobs, jobsClosed, disp, wk, result,
                   results, resultsClosed, resultMap, done, ctxDone>>

\* lines 311-312: after done, no error is waiting: return result, nil
MapCtxDrainOk ==
    /\ mainPc = "drain"
    /\ errors = <<>>
    /\ mainPc' = "returned"
    /\ ret' = [val |-> result, isNil |-> FALSE, err |-> "nil"]
    /\ hist' = [hist EXCEPT !.ctxAtReturn = ctxDone]
    /\ UNCHANGED <<restVars, batches, slice, fn, config, jobs, jobsClosed, disp, wk, result,
                   results, resultsClosed, resultMap, errors, done, ctxDone>>

\* lines 314-315: the caller's select takes an error
MapCtxMainErr ==
    /\ mainPc = "select"
    /\ errors # <<>>
    /\ mainPc' = "returned"
    /\ ret' = [val |-> <<>>, isNil |-> TRUE, err |-> Head(errors)]
    /\ errors' = Tail(errors)
    /\ hist' = [hist EXCEPT !.ctxAtReturn = ctxDone]
    /\ UNCHANGED <<restVars, batches, slice, fn, config, jobs, jobsClosed, disp, wk, result,
                   results, resultsClosed, resultMap, done, ctxDone>>

\* lines 316-317: the caller's select takes ctx.Done()
MapCtxMainCtx ==
    /\ mainPc = "select"
    /\ ctxDone
    /\ mainPc' = "returned"
    /\ ret' = [val |-> <<>>, isNil |-> TRUE, err |-> "ctx"]
    /\ hist' = [hist EXCEPT !.ctxAtReturn = ctxDone]
    /\ UNCHANGED <<restVars, batches, slice, fn, config, jobs, jobsClosed, disp, wk, result,
                   results, resultsClosed, resultMap, errors, done, ctxDone>>

MapCtxNext ==
    \/ MapCtxCancel
    \/ MapCtxEmpty
    \/ MapCtxStart
    \/ MapCtxSend
    \/ MapCtxDispCancel
    \/ MapCtxClose
    \/ MapCtxWatcher
    \/ MapCtxMainDone
    \/ MapCtxDrainErr
    \/ MapCtxDrainOk
    \/ MapCtxMainErr
    \/ MapCtxMainCtx
    \/ \E w \in DOMAIN wk :
        \/ MapCtxHandoff(w)
        \/ MapCtxRecv(w)
        \/ MapCtxExit(w)
        \/ MapCtxSeeCancel(w)
        \/ MapCtxCallOk(w)
        \/ MapCtxCallErr(w)
        \/ MapCtxSendErr(w)

SpecMapCtx == MapCtxInit /\ [][MapCtxNext]_vars

\* C5: whenever MapWithContext has returned a nil error on a non-empty input,
\* the returned slice has the input's length and every index holds the value
\* the mapper returned for that item (the mapper completed on every item, no
\* index is left at its zero value).
C5_NilErrorMeansFullResult ==
    (mainPc = "returned" /\ ret.err = "nil" /\ Len(slice) > 0) =>
        /\ Len(ret.val) = Len(slice)
        /\ \A i \in 1..Len(slice) :
              /\ hist.calls[i] >= 1
              /\ ret.val[i] = Mapper(fn.mapper, slice[i])

\* C6: if the context was cancelled before any mapper call had completed,
\* MapWithContext returns the context's cancellation error, never a nil error
\* (stated over the runs in which no mapper call returned an error, where the
\* context's error is the only error there is to return).
C6_EarlyCancelReturnsCtxError ==
    (mainPc = "returned" /\ hist.early /\ hist.failed = {} /\ Len(slice) > 0) =>
        ret.err = "ctx"

\* C7: if the mapper has returned an error for some item, or fails on some
\* item and the context is not cancelled when the call returns, the call
\* returns a non-nil error and a nil result, never a full-length result; for
\* every worker count >= 1, in particular WorkerCount >= N.
C7_MapperErrorGivesError ==
    (/\ mainPc = "returned"
     /\ \/ hist.failed # {}
        \/ fn.fail # {} /\ ~hist.ctxAtReturn) =>
        /\ ret.err # "nil"
        /\ ret.isNil
        /\ Len(ret.val) # Len(slice)

\* C7 witness: N >= 2 items, WorkerCount >= N, the mapper returned an error
\* for the last item while another item succeeded, and the call returned.
C7_Witness ==
    /\ mainPc = "returned"
    /\ Len(slice) >= 2
    /\ config.WorkerCount >= Len(slice)
    /\ ~ctxDone
    /\ Len(slice) \in hist.failed
    /\ \E i \in 1..Len(slice) : result[i] # Zero
    /\ ret.err = "mapper"

\* ================================================ BatchProcessor.Process
MaxBatchLen == 4       \* longest input of Process
MaxBatchSize == 3      \* largest batchSize
MaxParallelism == 3    \* largest parallelism

\* the inputs: items n, n-1, ..., 1 (distinct)
BatchSlices == {[i \in 1..n |-> n + 1 - i] : n \in 0..MaxBatchLen}

\* the processor: fn.proc maps every item ("inc") or keeps the odd items
\* ("odd", an output shorter than the batch); fn.fail is the set of batch
\* indices it returns an error for
Processor(f, batch) ==
    IF f.proc = "inc" THEN Map(batch, "inc") ELSE Filter(batch, "odd")

\* map.go, min
Min(a, b) == IF a < b THEN a ELSE b

RECURSIVE Flatten(_)
Flatten(ss) == IF ss = <<>> THEN <<>> ELSE Head(ss) \o Flatten(Tail(ss))

BatchInit ==
    /\ slice \in BatchSlices
    /\ config \in [batchSize : 1..MaxBatchSize, parallelism : 1..MaxParallelism]
    /\ fn \in [proc : {"inc", "odd"},
               fail : SUBSET (1..Len(Chunk(slice, config.batchSize)))]
    /\ jobs = <<>> /\ jobsClosed = FALSE /\ disp = 0
    /\ wk = <<>>
    /\ result = <<>> /\ batches = <<>>
    /\ results = <<>> /\ resultsClosed = FALSE /\ resultMap = <<>>
    /\ errors = <<>> /\ done = FALSE /\ ctxDone = FALSE
    /\ mainPc = "start"
    /\ ret = NoRet
    /\ hist = NoCtxHist
    /\ NoStreams

\* the caller's cancel() or the deadline, before or during the call
BatchCancel ==
    /\ ~ctxDone
    /\ mainPc # "returned"
    /\ ctxDone' = TRUE
    /\ UNCHANGED <<restVars, batches, slice, fn, config, jobs, jobsClosed, disp, wk,
                   result, results, resultsClosed, resultMap, errors, done, mainPc, ret,
                   hist>>

\* lines 345-347
BatchEmpty ==
    /\ mainPc = "start"
    /\ Len(slice) = 0
    /\ mainPc' = "returned"
    /\ ret' = [val |-> <<>>, isNil |-> TRUE, err |-> "nil"]
    /\ hist' = [hist EXCEPT !.ctxAtReturn = ctxDone]
    /\ UNCHANGED <<restVars, batches, slice, fn, config, jobs, jobsClosed, disp, wk,
                   result, results, resultsClosed, resultMap, errors, done, ctxDone>>

\* lines 349-400: batches, results, channels, min(parallelism, len(batches))
\* workers, dispatcher, watcher
BatchStart ==
    /\ mainPc = "start"
    /\ Len(slice) # 0
    /\ batches' = Chunk(slice, config.batchSize)
    /\ results' = [i \in 1..Len(batches') |-> <<>>]
    /\ wk' = [w \in 1..Min(config.parallelism, Len(batches')) |-> Idle]
    /\ disp' = 1
    /\ hist' = [hist EXCEPT !.calls = [i \in 1..Len(batches') |-> 0]]
    /\ mainPc' = "select"
    /\ UNCHANGED <<restVars, slice, fn, config, jobs, jobsClosed, result,
                   resultsClosed, resultMap, errors, done, ctxDone, ret>>

\* line 388: jobs <- i (capacity len(batches): the send never blocks)
BatchSend ==
    /\ disp \in 1..Len(batches)
    /\ ~jobsClosed
    /\ CanBuffer(jobs, Len(batches))
    /\ jobs' = Append(jobs, disp)
    /\ disp' = disp + 1
    /\ UNCHANGED <<restVars, batches, slice, fn, config, jobsClosed, wk, result,
                   results, resultsClosed, resultMap, errors, done, ctxDone, mainPc,
                   ret, hist>>

\* lines 389-390 and 385: the dispatcher's select takes ctx.Done(), returns,
\* and the deferred close(jobs) runs with batches still unsent
BatchDispCancel ==
    /\ disp \in 1..Len(batches)
    /\ ~jobsClosed
    /\ ctxDone
    /\ jobsClosed' = TRUE
    /\ UNCHANGED <<restVars, batches, slice, fn, config, jobs, disp, wk, result,
                   results, resultsClosed, resultMap, errors, done, ctxDone, mainPc,
                   ret, hist>>

\* line 385: the loop is over, close(jobs)
BatchClose ==
    /\ mainPc \notin {"start", "none"}
    /\ disp = Len(batches) + 1
    /\ ~jobsClosed
    /\ jobsClosed' = TRUE
    /\ UNCHANGED <<restVars, batches, slice, fn, config, jobs, disp, wk, result,
                   results, resultsClosed, resultMap, errors, done, ctxDone, mainPc,
                   ret, hist>>

\* line 363: the worker's select takes a batch index
BatchRecv(w) ==
    /\ wk[w].pc = "recv"
    /\ jobs # <<>>
    /\ wk' = Canon([wk EXCEPT ![w] = [pc |-> "call", idx |-> Head(jobs), val |-> Zero]])
    /\ jobs' = Tail(jobs)
    /\ UNCHANGED <<restVars, batches, slice, fn, config, jobsClosed, disp, result,
                   results, resultsClosed, resultMap, errors, done, ctxDone, mainPc,
                   ret, hist>>

\* lines 363-366: the select takes the closed, drained channel: return
BatchExit(w) ==
    /\ wk[w].pc = "recv"
    /\ jobs = <<>>
    /\ jobsClosed
    /\ wk' = Canon([wk EXCEPT ![w] = Gone])
    /\ UNCHANGED <<restVars, batches, slice, fn, config, jobs, jobsClosed, disp,
                   result, results, resultsClosed, resultMap, errors, done, ctxDone,
                   mainPc, ret, hist>>

\* line 375: the select takes ctx.Done()
BatchSeeCancel(w) ==
    /\ wk[w].pc = "recv"
    /\ ctxDone
    /\ wk' = Canon([wk EXCEPT ![w] = [pc |-> "senderr", idx |-> 0, val |-> "ctx"]])
    /\ UNCHANGED <<restVars, batches, slice, fn, config, jobs, jobsClosed, disp,
                   result, results, resultsClosed, resultMap, errors, done, ctxDone,
                   mainPc, ret, hist>>

\* line 373: results[batchIdx] = result
BatchStore(res, idx, out) == [res EXCEPT ![idx] = out]

\* lines 368 and 373: the processor returns the batch's output
BatchCallOk(w) ==
    /\ wk[w].pc = "call"
    /\ wk[w].idx \notin fn.fail
    /\ results' = BatchStore(results, wk[w].idx, Processor(fn, batches[wk[w].idx]))
    /\ wk' = Canon([wk EXCEPT ![w] = Idle])
    /\ hist' = [hist EXCEPT !.calls[wk[w].idx] = @ + 1]
    /\ UNCHANGED <<restVars, batches, slice, fn, config, jobs, jobsClosed, disp,
                   result, resultsClosed, resultMap, errors, done, ctxDone, mainPc, ret>>

\* lines 368-370: the processor returns an error
BatchCallErr(w) ==
    /\ wk[w].pc = "call"
    /\ wk[w].idx \in fn.fail
    /\ wk' = Canon([wk EXCEPT ![w] = [pc |-> "senderr", idx |-> wk[w].idx, val |-> "processor"]])
    /\ hist' = [hist EXCEPT !.calls[wk[w].idx] = @ + 1,
                            !.failed = @ \cup {wk[w].idx}]
    /\ UNCHANGED <<restVars, batches, slice, fn, config, jobs, jobsClosed, disp,
                   result, results, resultsClosed, resultMap, errors, done, ctxDone,
                   mainPc, ret>>

\* the worker returns on an error without recording it
BatchSendErrDropped(w) ==
    /\ wk[w].pc = "senderr"
    /\ wk' = Canon([wk EXCEPT ![w] = Gone])
    /\ UNCHANGED <<restVars, batches, slice, fn, config, jobs, jobsClosed, disp,
                   result, results, resultsClosed, resultMap, errors, done, ctxDone,
                   mainPc, ret, hist>>

\* lines 370-371 and 376-377: errors <- err (capacity len(batches)); return
BatchSendErr(w) ==
    /\ wk[w].pc = "senderr"
    /\ CanBuffer(errors, Len(batches))
    /\ errors' = Append(errors, wk[w].val)
    /\ wk' = Canon([wk EXCEPT ![w] = Gone])
    /\ UNCHANGED <<restVars, batches, slice, fn, config, jobs, jobsClosed, disp,
                   result, results, resultsClosed, resultMap, done, ctxDone, mainPc,
                   ret, hist>>

\* lines 397-400: wg.Wait(); close(done)
BatchWatcher ==
    /\ mainPc \notin {"start", "none"}
    /\ DOMAIN wk # {}
    /\ WgDone
    /\ ~done
    /\ done' = TRUE
    /\ UNCHANGED <<restVars, batches, slice, fn, config, jobs, jobsClosed, disp, wk,
                   result, results, resultsClosed, resultMap, errors, ctxDone, mainPc,
                   ret, hist>>

\* lines 402-403: the caller's select takes done
BatchMainDone ==
    /\ mainPc = "select"
    /\ done
    /\ mainPc' = "drain"
    /\ UNCHANGED <<restVars, batches, slice, fn, config, jobs, jobsClosed, disp, wk,
                   result, results, resultsClosed, resultMap, errors, done, ctxDone,
                   ret, hist>>

\* lines 404-406: after done, an error is waiting: return nil, err
BatchDrainErr ==
    /\ mainPc = "drain"
    /\ errors # <<>>
    /\ mainPc' = "returned"
    /\ ret' = [val |-> <<>>, isNil |-> TRUE, err |-> Head(errors)]
    /\ errors' = Tail(errors)
    /\ hist' = [hist EXCEPT !.ctxAtReturn = ctxDone]
    /\ UNCHANGED <<restVars, batches, slice, fn, config, jobs, jobsClosed, disp, wk,
                   result, results, resultsClosed, resultMap, done, ctxDone>>

\* lines 407-413: after done, no error is waiting: append every element of
\* results in index order and return it with a nil error
BatchDrainOk ==
    /\ mainPc = "drain"
    /\ errors = <<>>
    /\ mainPc' = "returned"
    /\ ret' = [val |-> Flatten(results), isNil |-> Flatten(results) = <<>>,
               err |-> "nil"]
    /\ hist' = [hist EXCEPT !.ctxAtReturn = ctxDone]
    /\ UNCHANGED <<restVars, batches, slice, fn, config, jobs, jobsClosed, disp, wk,
                   result, results, resultsClosed, resultMap, errors, done, ctxDone>>

\* lines 415-416: the caller's select takes an error
BatchMainErr ==
    /\ mainPc = "select"
    /\ errors # <<>>
    /\ mainPc' = "returned"
    /\ ret' = [val |-> <<>>, isNil |-> TRUE, err |-> Head(errors)]
    /\ errors' = Tail(errors)
    /\ hist' = [hist EXCEPT !.ctxAtReturn = ctxDone]
    /\ UNCHANGED <<restVars, batches, slice, fn, config, jobs, jobsClosed, disp, wk,
                   result, results, resultsClosed, resultMap, done, ctxDone>>

\* lines 417-418: the caller's select takes ctx.Done()
BatchMainCtx ==
    /\ mainPc = "select"
    /\ ctxDone
    /\ mainPc' = "returned"
    /\ ret' = [val |-> <<>>, isNil |-> TRUE, err |-> "ctx"]
    /\ hist' = [hist EXCEPT !.ctxAtReturn = ctxDone]
    /\ UNCHANGED <<restVars, batches, slice, fn, config, jobs, jobsClosed, disp, wk,
                   result, results, resultsClosed, resultMap, errors, done, ctxDone>>

BatchNext ==
    \/ BatchCancel
    \/ BatchEmpty
    \/ BatchStart
    \/ BatchSend
    \/ BatchDispCancel
    \/ BatchClose
    \/ BatchWatcher
    \/ BatchMainDone
    \/ BatchDrainErr
    \/ BatchDrainOk
    \/ BatchMainErr
    \/ BatchMainCtx
    \/ \E w \in DOMAIN wk :
        \/ BatchRecv(w)
        \/ BatchExit(w)
        \/ BatchSeeCancel(w)
        \/ BatchCallOk(w)
        \/ BatchCallErr(w)
        \/ BatchSendErr(w)

SpecBatch == BatchInit /\ [][BatchNext]_vars

\* the output the claims expect: every batch's output, in batch order
BatchExpected == Flatten([i \in 1..Len(batches) |-> Processor(fn, batches[i])])

\* C8: when Process has returned a nil error, its output is the concatenation
\* processor(batch_1) ++ processor(batch_2) ++ ... in batch order, whatever
\* order the workers completed the batches in.
C8_SuccessIsOrderedConcatenation ==
    (mainPc = "returned" /\ ret.err = "nil" /\ Len(slice) > 0) =>
        ret.val = BatchExpected

\* the part of C8 that does not depend on cancellation: a nil error returned
\* while the context is not cancelled comes with the ordered concatenation
C8_OrderedWhenNotCancelled ==
    (mainPc = "returned" /\ ret.err = "nil" /\ Len(slice) > 0 /\ ~hist.ctxAtReturn) =>
        ret.val = BatchExpected

\* ceil(n / b)
CeilDiv(n, b) == (n + b - 1) \div b

C9_WitnessEmpty == mainPc = "returned" /\ Len(slice) = 0

\* C10: if the processor has returned an error for at least one batch, Process
\* returns a non-nil error and a nil output, never a partial output.
C10_BatchErrorGivesError ==
    (mainPc = "returned" /\ hist.failed # {}) =>
        /\ ret.err # "nil"
        /\ ret.isNil
        /\ ret.val = <<>>

\* C10 witness: with two workers one batch was processed and stored, another
\* batch failed, and the call returned the processor's error.
C10_Witness ==
    /\ mainPc = "returned"
    /\ Len(wk) >= 2
    /\ hist.failed # {}
    /\ \E i \in 1..Len(batches) : results[i] # <<>>
    /\ ret.err = "processor"
    /\ ~ctxDone


\* C11: Process never returns a nil error together with an output that lacks
\* some batch's result: whenever the returned error is nil the processor has
\* been applied to every batch and every batch's output is stored.
C11_NilErrorMeansEveryBatch ==
    (mainPc = "returned" /\ ret.err = "nil" /\ Len(slice) > 0) =>
        \A i \in 1..Len(batches) :
            /\ hist.calls[i] = 1
            /\ results[i] = Processor(fn, batches[i])


\* ===================================== Stream: running a pipeline of stages
MaxRunLen == 3     \* longest slice or channel content a Stream is built from
MaxRangeEnd == 11  \* largest end of RangeStream(1, end)
MaxTake == 4       \* largest n of Take(n)
MaxStages == 3     \* stages chained on one Stream

\* the sources: NewStream(slice), NewStreamFromChannel(ch) with ch a buffered
\* channel the caller has filled and closed, RangeStream(1, end)
RunItems == {1, 2}
RunSlices == UNION {[1..n -> RunItems] : n \in 0..MaxRunLen}
Sources ==
    [kind : {"slice", "channel"}, items : RunSlices]
    \cup {[kind |-> "range", items |-> [i \in 1..(e - 1) |-> i]] : e \in 1..MaxRangeEnd}

\* the closures the stage-adding methods create
Terminals == {"Collect", "ForEach", "Reduce", "Count", "AnyMatch", "AllMatch", "FindFirst"}

\* the goroutine of stage j - 1 (tasks[1] is the source's goroutine), waiting
\* at `for item := range input`; count and seen are the locals of Take, Skip
\* and Distinct
AtRange == [pc |-> "recv", item |-> 0, count |-> 0, seen |-> <<>>]

\* the stage closure task j runs
StageOf(j) == stageFn[lastRun.stages[j - 1]]

\* the Equality functions given to Distinct: value equality, and having the
\* same parity (an equivalence with several values per class)
Equalities == {"equal", "sameParity"}
Equal(eq, a, b) ==
    CASE eq = "equal" -> a = b
      [] eq = "sameParity" -> a % 2 = b % 2

\* a stage that forwards every item whatever its closure says
OnItemForwardAll(t, f, x) == [t EXCEPT !.pc = "send", !.item = x]

\* a Skip that lets the items through one item late
OnSkipLate(t, f, x) ==
    IF t.count > f.arg THEN [t EXCEPT !.pc = "send", !.item = x]
    ELSE [t EXCEPT !.count = @ + 1]

\* Skip, lines 118-122: forward when count >= n; count++ either way (here
\* when nothing is sent, and in StageAfterSend after the send)
OnSkip(t, f, x) ==
    IF t.count >= f.arg THEN [t EXCEPT !.pc = "send", !.item = x]
    ELSE [t EXCEPT !.count = @ + 1]

\* a Distinct that compares an item with the last forwarded one only
OnDistinctAdjacent(t, f, x) ==
    IF t.seen # <<>> /\ Equal(f.arg, x, t.seen[Len(t.seen)]) THEN t
    ELSE [t EXCEPT !.pc = "send", !.item = x, !.seen = Append(@, x)]

\* Distinct, lines 140-153: the linear scan of seen with equals, then append
\* and forward an unseen item
OnDistinct(t, f, x) ==
    IF \E k \in DOMAIN t.seen : Equal(f.arg, x, t.seen[k]) THEN t
    ELSE [t EXCEPT !.pc = "send", !.item = x, !.seen = Append(@, x)]

\* DistinctComparable, lines 170-176: seen is a map keyed by the item
\* (modelled as the list of its keys in insertion order)
OnDistinctComparable(t, f, x) ==
    IF x \in {t.seen[k] : k \in DOMAIN t.seen} THEN t
    ELSE [t EXCEPT !.pc = "send", !.item = x, !.seen = Append(@, x)]

\* the body of a stage's loop on item x, up to its send on output:
\* Map lines 53-54, Filter 72-75, Take 94-98 (break, then the deferred close),
\* Skip 118-122, Distinct 141-151 (equals is equality; DistinctComparable
\* 171-174 does the same with a map), Buffer 244-245, WithContext 265-270
OnItem(t, f, x) ==
    CASE f.op = "Map" -> [t EXCEPT !.pc = "send", !.item = Mapper(f.arg, x)]
      [] f.op = "Filter" ->
            IF Predicate(f.arg, x) THEN [t EXCEPT !.pc = "send", !.item = x] ELSE t
      [] f.op = "Take" ->
            IF t.count >= f.arg THEN [t EXCEPT !.pc = "done"]
            ELSE [t EXCEPT !.pc = "send", !.item = x]
      [] f.op = "Skip" -> OnSkip(t, f, x)
      [] f.op = "Distinct" -> OnDistinct(t, f, x)
      [] f.op = "DistinctComparable" -> OnDistinctComparable(t, f, x)
      [] f.op \in {"Buffer", "WithContext"} -> [t EXCEPT !.pc = "send", !.item = x]

\* the source goroutine after `ch <- item`: the next item, or the loop is over
\* and the deferred close(ch) runs (lines 19-24, 467-472); InfiniteStream's
\* loop calls generator() again and never ends (lines 452-454): source.items
\* are the values the generator returns before a call of it blocks
SourceAfterSend(t) ==
    IF t.count + 1 = Len(source.items)
    THEN [pc |-> IF source.kind = "infinite" THEN "call" ELSE "done", item |-> 0,
          count |-> t.count + 1]
    ELSE [pc |-> "send", item |-> source.items[t.count + 2], count |-> t.count + 1]

\* a stage after `output <- item` that never counts what it forwarded
StageAfterSendUncounted(t, f) == [t EXCEPT !.pc = "recv", !.item = 0]

\* a stage after `output <- item`: back to its loop (Take: count++, line 99;
\* Skip: count++, line 122; Parallel: the range over results, line 224)
StageAfterSend(t, f) ==
    [t EXCEPT !.pc = IF f.op = "Parallel" THEN "take" ELSE "recv",
              !.item = 0,
              !.count = IF f.op \in {"Take", "Skip"} THEN @ + 1 ELSE @]

AfterSend(j) ==
    IF j = 1 THEN SourceAfterSend(tasks[1]) ELSE StageAfterSend(tasks[j], StageOf(j))


\* a loop body that returns early only in AllMatch
TermStopsOnMismatch(kind, x) == kind = "AllMatch" /\ ~Predicate("even", x)

\* the terminal operation's loop body on item x: AnyMatch 374-378 and
\* FindFirst 410-414 return on a match, AllMatch 392-396 on a mismatch, the
\* others take every item
TermStops(kind, x) ==
    \/ kind \in {"AnyMatch", "FindFirst"} /\ Predicate("even", x)
    \/ kind = "AllMatch" /\ ~Predicate("even", x)

\* what the terminal operation returns after receiving `out`, `stopped` when
\* it returned from inside its loop
TermValue(kind, out, stopped) ==
    CASE kind \in {"Collect", "ForEach"} -> out
      [] kind = "Reduce" -> <<FoldFrom(out, [op |-> "add", identity |-> 0], 0, 1)>>
      [] kind = "Count" -> <<Len(out)>>
      [] kind = "AnyMatch" -> <<stopped>>
      [] kind = "AllMatch" -> <<~stopped>>
      [] kind = "FindFirst" -> IF stopped THEN <<out[Len(out)]>> ELSE <<>>

TermOnItem(t, x) ==
    LET out2 == Append(t.out, x)
    IN  IF TermStops(t.kind, x)
        THEN [t EXCEPT !.out = out2, !.pc = "returned",
                       !.val = TermValue(t.kind, out2, TRUE)]
        ELSE [t EXCEPT !.out = out2]

StreamRunInit ==
    /\ NoPool
    /\ heap = <<>>
    /\ streams = <<[arr |-> 0, len |-> 0, cap |-> 0, made |-> <<>>]>>
    /\ lastRun = NoRun
    /\ source \in Sources
    /\ stageFn = <<>> /\ tasks = <<>> /\ chans = <<>>
    /\ term = NoTerm
    /\ NoLimiter /\ NoPipeline

\* a stage-adding method that starts the goroutine of its stage at once
ChainStageEager(f) ==
    /\ term.runs = 0
    /\ Len(stageFn) < MaxStages
    /\ AppendStage(streams[Len(streams)], Len(streams))
    /\ stageFn' = Append(stageFn, f)
    /\ tasks' = Append(tasks, AtRange)
    /\ chans' = Append(chans, [buf |-> <<>>, cap |-> 0, closed |-> FALSE])
    /\ UNCHANGED <<poolVars, lastRun, source, term, limiter, pipe>>

\* a stage-adding method called on the Stream value returned last: the new
\* Stream holds the appended pipeline; nothing else happens (lines 48-64)
ChainStage(f) ==
    /\ term.runs = 0
    /\ Len(stageFn) < MaxStages
    /\ \A i \in DOMAIN stageFn : stageFn[i].op # f.op
    /\ AppendStage(streams[Len(streams)], Len(streams))
    /\ stageFn' = Append(stageFn, f)
    /\ UNCHANGED <<poolVars, lastRun, source, tasks, chans, term, limiter, pipe>>

ChainMap(f) == ChainStage([op |-> "Map", arg |-> f])
ChainFilter(p) == ChainStage([op |-> "Filter", arg |-> p])
ChainTake(n) == ChainStage([op |-> "Take", arg |-> n])

\* ch := s.source(): NewStream starts a goroutine feeding a fresh channel of
\* capacity len(slice) (lines 17-26), RangeStream one feeding a fresh
\* unbuffered channel (465-474), NewStreamFromChannel hands out the caller's
\* channel, whatever it still holds (line 34)
SourceChan ==
    CASE source.kind = "slice" ->
            [buf |-> <<>>, cap |-> Len(source.items), closed |-> source.items = <<>>]
      \* RangeStream, RepeatStream: make(chan T), lines 466 and 483
      [] source.kind \in {"range", "repeat"} ->
            [buf |-> <<>>, cap |-> 0, closed |-> source.items = <<>>]
      [] source.kind = "channel" ->
            IF term.runs = 0
            THEN [buf |-> source.items, cap |-> Len(source.items), closed |-> TRUE]
            ELSE chans[1]
      \* NewStreamFromChannel on a channel its owner has not closed
      [] source.kind = "open" ->
            [buf |-> source.items, cap |-> Len(source.items), closed |-> FALSE]
      \* InfiniteStream: a fresh unbuffered channel, never closed (line 450)
      [] source.kind = "infinite" -> [buf |-> <<>>, cap |-> 0, closed |-> FALSE]
SourceTask ==
    IF source.kind \in {"channel", "open"} THEN [pc |-> "none", item |-> 0, count |-> 0]
    ELSE IF source.items = <<>>
         THEN [pc |-> IF source.kind = "infinite" THEN "call" ELSE "done", item |-> 0,
               count |-> 0]
    ELSE [pc |-> "send", item |-> source.items[1], count |-> 0]

\* a Buffer whose conduit has room for one item more than asked
StageChanRoomier(f) ==
    [buf |-> <<>>, cap |-> IF f.op = "Buffer" THEN f.arg + 1 ELSE 0, closed |-> FALSE]

\* what a stage closure sets up when it is applied: its output channel
\* (unbuffered; Buffer: make(chan T, size), line 241) and its goroutine
\* (Parallel's first builds its pool, lines 195-222)
StageChan(f) ==
    [buf |-> <<>>, cap |-> IF f.op = "Buffer" THEN f.arg ELSE 0, closed |-> FALSE]
StageTask(f) == IF f.op = "Parallel" THEN [AtRange EXCEPT !.pc = "start"] ELSE AtRange

\* lines 289-295 (the same in every terminal operation): call the source,
\* then apply every stage of s.pipeline, each starting its goroutine on a
\* fresh unbuffered output channel
Materialize(kind) ==
    LET k == Len(streams)
        stages == Pipeline(streams[k])
    IN  /\ lastRun' = [stream |-> k, stages |-> stages]
        /\ tasks' = <<SourceTask>> \o [j \in 1..Len(stages) |-> StageTask(stageFn[stages[j]])]
        /\ chans' = <<SourceChan>> \o [j \in 1..Len(stages) |-> StageChan(stageFn[stages[j]])]
        /\ term' = [kind |-> kind, pc |-> "recv", out |-> <<>>, val |-> <<>>,
                    runs |-> term.runs + 1,
                    first |-> IF term.runs = 0 THEN <<>> ELSE term.val]
        /\ UNCHANGED <<poolVars, heap, streams, source, stageFn, limiter, pipe>>

\* a terminal operation is called on the Stream
TerminalCall(kind) ==
    /\ term.runs = 0
    /\ Materialize(kind)

\* the same terminal operation is called again on the same Stream value
\* after the first call has returned
TerminalAgain ==
    /\ term.runs = 1
    /\ term.pc = "returned"
    /\ Materialize(term.kind)


\* task j and its output channel after the task moved to record t: a task
\* that returns runs its deferred close(output)
Moved(ts, cs, j, t) ==
    [tasks2 |-> [ts EXCEPT ![j] = t],
     chans2 |-> [cs EXCEPT ![j].closed = @ \/ t.pc = "done"]]

\* `ch <- item` on a buffered channel with room (the source of NewStream)
TaskPut(j) ==
    /\ tasks[j].pc = "send"
    /\ CanBuffer(chans[j].buf, chans[j].cap)
    /\ LET m == Moved(tasks, [chans EXCEPT ![j].buf = Append(@, tasks[j].item)],
                      j, AfterSend(j))
       IN  tasks' = m.tasks2 /\ chans' = m.chans2
    /\ UNCHANGED <<poolVars, buildVars, source, stageFn, term, limiter, pipe>>

\* `output <- item` on an unbuffered channel meets the next stage at its range
TaskHandoff(j) ==
    /\ j < Len(tasks)
    /\ tasks[j].pc = "send"
    /\ chans[j].cap = 0
    /\ tasks[j + 1].pc = "recv"
    /\ LET m1 == Moved(tasks, chans, j, AfterSend(j))
           m2 == Moved(m1.tasks2, m1.chans2, j + 1,
                       OnItem(tasks[j + 1], StageOf(j + 1), tasks[j].item))
       IN  tasks' = m2.tasks2 /\ chans' = m2.chans2
    /\ UNCHANGED <<poolVars, buildVars, source, stageFn, term, limiter, pipe>>

\* a stage's range takes an item from its buffered input
TaskGet(j) ==
    /\ j > 1
    /\ tasks[j].pc = "recv"
    /\ chans[j - 1].buf # <<>>
    /\ LET m == Moved(tasks, [chans EXCEPT ![j - 1].buf = Tail(@)], j,
                      OnItem(tasks[j], StageOf(j), Head(chans[j - 1].buf)))
       IN  tasks' = m.tasks2 /\ chans' = m.chans2
    /\ UNCHANGED <<poolVars, buildVars, source, stageFn, term, limiter, pipe>>

\* a stage's range ends on its closed, drained input; defer close(output)
TaskEnd(j) ==
    /\ j > 1
    /\ tasks[j].pc = "recv"
    /\ chans[j - 1].buf = <<>>
    /\ chans[j - 1].closed
    /\ LET m == Moved(tasks, chans, j, [tasks[j] EXCEPT !.pc = "done"])
       IN  tasks' = m.tasks2 /\ chans' = m.chans2
    /\ UNCHANGED <<poolVars, buildVars, source, stageFn, term, limiter, pipe>>

\* the last task's unbuffered send meets the terminal operation's range
TermHandoff ==
    /\ term.pc = "recv"
    /\ tasks[Len(tasks)].pc = "send"
    /\ chans[Len(tasks)].cap = 0
    /\ LET m == Moved(tasks, chans, Len(tasks), AfterSend(Len(tasks)))
       IN  tasks' = m.tasks2 /\ chans' = m.chans2
    /\ term' = TermOnItem(term, tasks[Len(tasks)].item)
    /\ UNCHANGED <<poolVars, buildVars, source, stageFn, limiter, pipe>>

\* the terminal operation's range takes an item from a buffered channel (a
\* Stream without stages)
TermGet ==
    /\ term.pc = "recv"
    /\ chans[Len(chans)].buf # <<>>
    /\ chans' = [chans EXCEPT ![Len(chans)].buf = Tail(@)]
    /\ term' = TermOnItem(term, Head(chans[Len(chans)].buf))
    /\ UNCHANGED <<poolVars, buildVars, source, stageFn, tasks, limiter, pipe>>

\* the terminal operation's range ends on the closed, drained channel
TermEnd ==
    /\ term.pc = "recv"
    /\ chans[Len(chans)].buf = <<>>
    /\ chans[Len(chans)].closed
    /\ term' = [term EXCEPT !.pc = "returned", !.val = TermValue(term.kind, term.out, FALSE)]
    /\ UNCHANGED <<poolVars, buildVars, source, stageFn, tasks, chans, limiter, pipe>>

StreamRunNext ==
    \/ \E f \in {"square"} : ChainMap(f)
    \/ \E p \in {"even"} : ChainFilter(p)
    \/ \E n \in 0..MaxTake : ChainTake(n)
    \/ \E kind \in Terminals : TerminalCall(kind)
    \/ \E j \in DOMAIN tasks :
        \/ TaskPut(j)
        \/ TaskHandoff(j)
        \/ TaskGet(j)
        \/ TaskEnd(j)
    \/ TermHandoff
    \/ TermGet
    \/ TermEnd

SpecStreamRun == StreamRunInit /\ [][StreamRunNext]_vars

\* the first min(n, len(s)) items of s
TakeFirst(s, n) == SubSeq(s, 1, IF n < Len(s) THEN n ELSE Len(s))


\* the closures of the pipeline the terminal operation ran, in pipeline order
RunStages == [i \in 1..Len(lastRun.stages) |-> stageFn[lastRun.stages[i]]]

\* a first Collect() has returned
Collected == term.pc = "returned" /\ term.kind = "Collect" /\ term.runs = 1

\* C12: NewStream(S).Filter(p).Map(f).Collect() returns the same ordered
\* sequence as sequential Map(Filter(S, p), f), for every finite source.
C12_FilterMapCollect ==
    (/\ Collected
     /\ Len(RunStages) = 2
     /\ RunStages[1].op = "Filter" /\ RunStages[2].op = "Map") =>
        term.val = Map(Filter(source.items, RunStages[1].arg), RunStages[2].arg)

\* C12 witness: Filter(even).Map(square).Collect() has returned on a slice
\* with an odd item between two even ones.
C12_Witness ==
    /\ Collected
    /\ source.kind = "slice"
    /\ source.items = <<2, 1, 2>>
    /\ Len(RunStages) = 2
    /\ RunStages[1].op = "Filter" /\ RunStages[2].op = "Map"
    /\ term.val = <<4, 4>>

\* C13: NewStream(S).Take(k).Collect() returns exactly the first
\* min(k, len(S)) elements of S in order, for every k >= 0 (empty for k = 0,
\* all of S for k > len(S)); and
\* RangeStream(1, 11).Filter(even).Map(square).Take(3).Collect() returns
\* [4, 16, 36].
C13_TakeCollect ==
    /\ (Collected /\ Len(RunStages) = 1 /\ RunStages[1].op = "Take") =>
          /\ term.val = TakeFirst(source.items, RunStages[1].arg)
          /\ Len(term.val) = Min(RunStages[1].arg, Len(source.items))
    /\ (/\ Collected
        /\ source = [kind |-> "range", items |-> <<1, 2, 3, 4, 5, 6, 7, 8, 9, 10>>]
        /\ RunStages = <<[op |-> "Filter", arg |-> "even"], [op |-> "Map", arg |-> "square"],
                         [op |-> "Take", arg |-> 3]>>) =>
          term.val = <<4, 16, 36>>

\* C13 witness: the RangeStream scenario has returned its three items.
C13_Witness ==
    /\ Collected
    /\ source.kind = "range" /\ Len(source.items) = 10
    /\ Len(RunStages) = 3
    /\ RunStages[1].op = "Filter" /\ RunStages[2].op = "Map"
    /\ RunStages[3] = [op |-> "Take", arg |-> 3]
    /\ Len(term.val) = 3

\* C13 witnesses for Take(0) on a non-empty slice and Take(k) with k > len(S)
C13_WitnessZero ==
    /\ Collected /\ source.kind = "slice" /\ Len(source.items) >= 2
    /\ RunStages = <<[op |-> "Take", arg |-> 0]>>
C13_WitnessAll ==
    /\ Collected /\ source.kind = "slice" /\ Len(source.items) >= 2
    /\ Len(RunStages) = 1 /\ RunStages[1].op = "Take"
    /\ RunStages[1].arg > Len(source.items)
    /\ term.val = source.items


\* ------------------------------------------- Stream: reusing a Stream value
StreamReuseNext == StreamRunNext \/ TerminalAgain

SpecStreamReuse == StreamRunInit /\ [][StreamReuseNext]_vars

\* C14: a Stream value can be reused: the same terminal operation run a second
\* time on the same Stream value returns what the first run returned,
\* whichever constructor built the Stream.
C14_SecondRunSameResult ==
    (term.runs = 2 /\ term.pc = "returned") => term.val = term.first

\* the part of C14 that holds: Streams whose source function starts a fresh
\* generator on every call (NewStream, RangeStream)
C14_FreshSourcesReusable ==
    (term.runs = 2 /\ term.pc = "returned" /\ source.kind # "channel") =>
        term.val = term.first


\* =========================================================== RateLimiter
MaxRps == 3        \* largest rps of NewRateLimiter
MaxTicks == 3      \* ticks of the refill ticker in one run
MaxWaits == 5      \* calls of Wait in one run

\* a limiter whose bucket was never filled
LimiterNewEmpty(rps) ==
    [rps |-> rps, tokens |-> 0, pending |-> 0, ticks |-> 0, waiting |-> 0,
     granted |-> 0, refused |-> 0, ctxDone |-> FALSE]

\* lines 428-453, NewRateLimiter: a tokens channel of capacity rps, filled
\* with rps tokens; the refill goroutine is started on a ticker of period
\* time.Second / rps
LimiterNew(rps) ==
    [rps |-> rps, tokens |-> rps, pending |-> 0, ticks |-> 0, waiting |-> 0,
     granted |-> 0, refused |-> 0, ctxDone |-> FALSE]

LimiterInit ==
    /\ NoPool
    /\ heap = <<>> /\ streams = <<>> /\ lastRun = NoRun
    /\ NoTasks /\ NoPipeline
    /\ \E rps \in 1..MaxRps : limiter = LimiterNew(rps)

\* a refill that tops the bucket up to its capacity
LimiterRefillFull(l) == [l EXCEPT !.pending = 0, !.tokens = l.rps]

\* a refill that adds its token whether or not the bucket is full
LimiterRefillOver(l) == [l EXCEPT !.pending = 0, !.tokens = l.tokens + 1]

\* lines 443-449: on a tick, select { case rl.tokens <- struct{}{}: default: }:
\* one token is added unless the channel is full
LimiterRefilled(l) ==
    [l EXCEPT !.pending = 0, !.tokens = IF l.tokens < l.rps THEN l.tokens + 1 ELSE l.tokens]

\* a successful Wait that leaves the token in the bucket
LimiterKept(l) == [l EXCEPT !.waiting = @ - 1, !.granted = @ + 1]

\* lines 458-459: case <-rl.tokens: return nil
LimiterTaken(l) == [l EXCEPT !.waiting = @ - 1, !.granted = @ + 1, !.tokens = @ - 1]

\* the ticker fires: the tick is queued on ticker.C (capacity 1) or dropped
\* when the previous one has not been received yet
LimiterTick ==
    /\ limiter.rps > 0
    /\ limiter.ticks < MaxTicks
    /\ limiter' = [limiter EXCEPT !.ticks = @ + 1, !.pending = 1]
    /\ UNCHANGED <<poolVars, buildVars, runVars, pipe>>

\* line 443: the refill goroutine receives the tick
LimiterRefill ==
    /\ limiter.pending = 1
    /\ limiter' = LimiterRefilled(limiter)
    /\ UNCHANGED <<poolVars, buildVars, runVars, pipe>>

\* the caller's context is cancelled
LimiterCancel ==
    /\ limiter.rps > 0
    /\ ~limiter.ctxDone
    /\ limiter' = [limiter EXCEPT !.ctxDone = TRUE]
    /\ UNCHANGED <<poolVars, buildVars, runVars, pipe>>

\* line 456: a goroutine calls Wait and blocks in its select
WaitCall ==
    /\ limiter.rps > 0
    /\ limiter.waiting + limiter.granted + limiter.refused < MaxWaits
    /\ limiter' = [limiter EXCEPT !.waiting = @ + 1]
    /\ UNCHANGED <<poolVars, buildVars, runVars, pipe>>

\* lines 458-459: a blocked Wait takes a token and returns nil
WaitToken ==
    /\ limiter.waiting > 0
    /\ limiter.tokens > 0
    /\ limiter' = LimiterTaken(limiter)
    /\ UNCHANGED <<poolVars, buildVars, runVars, pipe>>

\* lines 460-461: a blocked Wait takes ctx.Done() and returns ctx.Err()
WaitCtx ==
    /\ limiter.waiting > 0
    /\ limiter.ctxDone
    /\ limiter' = [limiter EXCEPT !.waiting = @ - 1, !.refused = @ + 1]
    /\ UNCHANGED <<poolVars, buildVars, runVars, pipe>>

LimiterNext ==
    \/ LimiterTick
    \/ LimiterRefill
    \/ LimiterCancel
    \/ WaitCall
    \/ WaitToken
    \/ WaitCtx

SpecLimiter == LimiterInit /\ [][LimiterNext]_vars


\* C15: after NewRateLimiter(r), r >= 1, the first r calls of Wait can all
\* return success before any refill tick has fired (as long as no tick has
\* fired the bucket holds r minus the permits granted, so a token is there
\* for each of the first r calls), and an (r+1)-th Wait does not return
\* success until at least one tick has fired.
C15_BurstThenTick ==
    /\ limiter.ticks = 0 => limiter.tokens = limiter.rps - limiter.granted
    /\ (limiter.ticks = 0 /\ limiter.granted < limiter.rps) => limiter.tokens > 0
    /\ limiter.granted > limiter.rps => limiter.ticks >= 1

\* C15 witness: r >= 2 calls of Wait have returned success, none was refused,
\* no tick has fired, and a further call is blocked on the empty bucket.
C15_Witness ==
    /\ limiter.rps >= 2
    /\ limiter.ticks = 0
    /\ limiter.granted = limiter.rps
    /\ limiter.refused = 0 /\ ~limiter.ctxDone
    /\ limiter.waiting = 1 /\ limiter.tokens = 0

\* C16: every return of Wait is one of two outcomes: nil, having removed
\* exactly one token from a non-empty bucket, or the context's error, only
\* when the context is cancelled, leaving the token count unchanged; Wait
\* never returns while the bucket is empty and the context is not cancelled.
C16_WaitOutcomes ==
    [][/\ (limiter'.granted # limiter.granted \/ limiter'.refused # limiter.refused) =>
             limiter'.waiting = limiter.waiting - 1
       /\ limiter'.waiting < limiter.waiting =>
             /\ limiter.tokens > 0 \/ limiter.ctxDone
             /\ \/ /\ limiter'.granted = limiter.granted + 1
                   /\ limiter'.refused = limiter.refused
                   /\ limiter.tokens > 0
                   /\ limiter'.tokens = limiter.tokens - 1
                \/ /\ limiter'.refused = limiter.refused + 1
                   /\ limiter'.granted = limiter.granted
                   /\ limiter.ctxDone
                   /\ limiter'.tokens = limiter.tokens]_vars

\* C16 witness: both outcomes have happened: a Wait returned nil and, after
\* the cancellation, another returned the context's error on an empty bucket.
C16_Witness ==
    /\ limiter.granted >= 1
    /\ limiter.refused >= 1
    /\ limiter.tokens = 0

\* C17: at every moment the number of Wait calls that have returned success
\* is at most r plus the number of refill ticks fired so far, for any number
\* of concurrent callers.
C17_AtMostBurstPlusTicks == limiter.granted <= limiter.rps + limiter.ticks

\* C17 witness: the bound is met after the burst: with callers blocked, a tick
\* fired, its token was taken, and r + ticks permits have been granted.
C17_Witness ==
    /\ limiter.ticks >= 2
    /\ limiter.granted = limiter.rps + limiter.ticks
    /\ limiter.waiting >= 1


\* C18: constructing a Stream and chaining stage-adding operations starts no
\* goroutine, creates no channel and takes no item from the source: until a
\* terminal operation is called there is no source or stage task, and the
\* tasks that exist were started by a terminal call.
C18_NoWorkBeforeTerminal ==
    /\ term.runs = 0 =>
          /\ tasks = <<>> /\ chans = <<>>
          /\ term.out = <<>>
          /\ lastRun = NoRun
    /\ tasks # <<>> =>
          /\ term.runs >= 1
          /\ Len(tasks) = Len(lastRun.stages) + 1

\* C18 witness: three stages have been chained on a non-empty RangeStream and
\* no terminal operation has been called yet.
C18_Witness ==
    /\ source.kind = "range" /\ source.items # <<>>
    /\ Len(stageFn) = 3
    /\ Len(streams) = 4
    /\ term.runs = 0


\* ------------------------------------- Stream: termination of the goroutines
\* the Go scheduler runs every goroutine that is able to take a step
SpecStreamRunFair == SpecStreamRun /\ WF_vars(StreamRunNext)

\* every goroutine the terminal operation started has returned
AllTasksDone == \A j \in DOMAIN tasks : tasks[j].pc \in {"done", "none"}

\* C19: every generation task started by a terminal operation eventually
\* terminates once the source is exhausted or a downstream stage has stopped
\* consuming: after the terminal operation has returned, no source or stage
\* goroutine stays blocked forever on a send.
C19_TasksTerminate == (term.pc = "returned") ~> AllTasksDone

\* the part of C19 that holds: when the terminal operation drained the
\* pipeline and no stage stopped early, every goroutine has returned by the
\* time the terminal operation returns
C19_DrainedRunsTerminate ==
    (/\ term.pc = "returned"
     /\ term.kind \in {"Collect", "ForEach", "Reduce", "Count"}
     /\ \A i \in DOMAIN RunStages : RunStages[i].op # "Take") => AllTasksDone


\* =============================================================== Pipeline
MaxPipeLen == 3      \* longest input of NewPipeline (besides the README's 1..10)
MaxPipeWorkers == 2  \* largest WorkerCount of a Pipeline's config
MaxPipeBuffer == 1   \* largest BufferSize of a Pipeline's config

\* the inputs: 1..n, and the README's [1..10]
PipeInputs ==
    {[i \in 1..n |-> i] : n \in 0..MaxPipeLen} \cup {<<1, 2, 3, 4, 5, 6, 7, 8, 9, 10>>}

\* no call of a parallel primitive is in progress: its locals do not exist
PoolAtRest ==
    /\ slice' = <<>> /\ fn' = "none"
    /\ jobs' = <<>> /\ jobsClosed' = FALSE /\ disp' = 0
    /\ wk' = <<>>
    /\ result' = <<>> /\ results' = <<>> /\ resultsClosed' = FALSE /\ resultMap' = <<>>
    /\ mainPc' = "none"
    /\ ret' = NoRet
    /\ hist' = NoHist
    /\ UNCHANGED <<config, batches, errors, done, ctxDone>>

\* lines 183-194: NewPipeline(data).WithConfig(config)
PipelineInit ==
    /\ slice = <<>> /\ fn = "none"
    /\ config \in [WorkerCount : 1..MaxPipeWorkers, BufferSize : 0..MaxPipeBuffer]
    /\ jobs = <<>> /\ jobsClosed = FALSE /\ disp = 0
    /\ wk = <<>>
    /\ result = <<>> /\ batches = <<>>
    /\ results = <<>> /\ resultsClosed = FALSE /\ resultMap = <<>>
    /\ errors = <<>> /\ done = FALSE /\ ctxDone = FALSE
    /\ mainPc = "none"
    /\ ret = NoRet
    /\ hist = NoHist
    /\ heap = <<>> /\ streams = <<>> /\ lastRun = NoRun
    /\ NoTasks /\ NoLimiter
    /\ \E input \in PipeInputs :
          pipe = [input |-> input, data |-> input, ops |-> <<>>, step |-> "idle"]

\* a transformation method calls its parallel primitive on p.data with p.config
PipelineCall(f, step) ==
    /\ pipe.step = "idle"
    /\ slice' = pipe.data
    /\ fn' = f
    /\ mainPc' = "start"
    /\ pipe' = [pipe EXCEPT !.step = step]
    /\ UNCHANGED <<buildVars, runVars, limiter, config, batches, jobs, jobsClosed, disp, wk,
                   result, results, resultsClosed, resultMap, errors, done, ctxDone,
                   ret, hist>>

\* p.data left as it was when the primitive returns
PipelineKeep(p, op, val) == [p EXCEPT !.ops = Append(@, op), !.step = "idle"]

\* the result the primitive returned is kept as p.data in place of the old one
\* and p itself is returned
PipelineStore(p, op, val) ==
    [p EXCEPT !.data = val, !.ops = Append(@, op), !.step = "idle"]

\* line 204: FilterParallel(p.data, predicate, p.config) is called
PipelineFilter(p) ==
    /\ pipe.ops = <<>>
    /\ PipelineCall(p, "Filter")

\* lines 204-205: p.data = (what FilterParallel returned); return p
PipelineFilterReturn ==
    /\ pipe.step = "Filter"
    /\ mainPc = "returned"
    /\ pipe' = PipelineStore(pipe, [op |-> "Filter", arg |-> fn], ret.val)
    /\ PoolAtRest
    /\ UNCHANGED <<buildVars, runVars, limiter>>

\* line 198: MapParallelWithConfig(p.data, mapper, p.config) is called
PipelineMap(f) ==
    /\ \A i \in DOMAIN pipe.ops : pipe.ops[i].op # "Map"
    /\ PipelineCall(f, "Map")

\* lines 198-199: p.data = (what MapParallelWithConfig returned); return p
PipelineMapReturn ==
    /\ pipe.step = "Map"
    /\ mainPc = "returned"
    /\ pipe' = PipelineStore(pipe, [op |-> "Map", arg |-> fn], ret.val)
    /\ PoolAtRest
    /\ UNCHANGED <<buildVars, runVars, limiter>>

\* lines 214-216: Collect returns p.data
PipelineCollect ==
    /\ pipe.step = "idle"
    /\ pipe' = [pipe EXCEPT !.step = "collected"]
    /\ UNCHANGED <<poolVars, buildVars, runVars, limiter>>

PipelineNext ==
    \/ \E p \in {"even", "odd"} : PipelineFilter(p)
    \/ pipe.step = "Filter" /\ FilterParNext
    \/ PipelineFilterReturn
    \/ \E f \in {"inc", "square"} : PipelineMap(f)
    \/ pipe.step = "Map" /\ MapParNext
    \/ PipelineMapReturn
    \/ PipelineCollect

SpecPipeline == PipelineInit /\ [][PipelineNext]_vars

\* the transformations applied so far, done sequentially, left to right
RECURSIVE ApplyOps(_, _, _)
ApplyOps(s, ops, i) ==
    IF i > Len(ops) THEN s
    ELSE ApplyOps(IF ops[i].op = "Filter" THEN Filter(s, ops[i].arg)
                  ELSE Map(s, ops[i].arg), ops, i + 1)

\* C20: each Pipeline transformation replaces the Pipeline's sequence with the
\* result of the parallel primitive on its current sequence, so chained calls
\* compose left to right: NewPipeline(S).Filter(p).Map(f).Collect() equals
\* sequential Map(Filter(S, p), f), for every WorkerCount >= 1; on [1..10]
\* with even and square it is [4, 16, 36, 64, 100].
C20_PipelineComposes ==
    /\ pipe.step \in {"idle", "collected"} => pipe.data = ApplyOps(pipe.input, pipe.ops, 1)
    /\ (/\ pipe.step = "collected"
        /\ Len(pipe.ops) = 2
        /\ pipe.ops[1].op = "Filter" /\ pipe.ops[2].op = "Map") =>
          pipe.data = Map(Filter(pipe.input, pipe.ops[1].arg), pipe.ops[2].arg)
    /\ (/\ pipe.step = "collected"
        /\ Len(pipe.input) = 10
        /\ pipe.ops = <<[op |-> "Filter", arg |-> "even"], [op |-> "Map", arg |-> "square"]>>) =>
          pipe.data = <<4, 16, 36, 64, 100>>

\* C20 witness: the README's example has been collected, both primitives
\* having run on their worker pool.
C20_Witness ==
    /\ pipe.step = "collected"
    /\ Len(pipe.input) = 10
    /\ config.WorkerCount >= 2
    /\ pipe.ops = <<[op |-> "Filter", arg |-> "even"], [op |-> "Map", arg |-> "square"]>>
    /\ pipe.data = <<4, 16, 36, 64, 100>>

\* ============================== the worker pools with any WorkerCount
\* ParallelConfig is a plain struct: nothing keeps WorkerCount positive
AnyConfigs == [WorkerCount : (0 - 1)..MaxWorkers, BufferSize : 0..MaxBuffer]

\* MapParallelWithConfig called with any configuration
MapParAnyInit ==
    /\ slice \in Slices
    /\ fn \in Mappers
    /\ config \in AnyConfigs
    /\ jobs = <<>> /\ jobsClosed = FALSE /\ disp = 0
    /\ wk = <<>>
    /\ result = <<>> /\ batches = <<>>
    /\ results = <<>> /\ resultsClosed = FALSE /\ resultMap = <<>>
    /\ errors = <<>> /\ done = FALSE /\ ctxDone = FALSE
    /\ mainPc = "start"
    /\ ret = NoRet
    /\ hist = NoHist
    /\ NoStreams

SpecMapParAny == MapParAnyInit /\ [][MapParNext]_vars

\* C21: called with a non-positive WorkerCount on a non-empty input,
\* MapParallelWithConfig (and likewise FilterParallel, ForEachParallel,
\* MapWithContext) stalls: the call never returns.
C21_NonPositiveCountNeverReturns ==
    (config.WorkerCount <= 0 /\ Len(slice) > 0) => mainPc # "returned"

\* what the code does instead: with no worker started wg.Wait() returns at
\* once and the caller gets the freshly made result, no item mapped
C21_NonPositiveCountReturnsZeros ==
    (config.WorkerCount <= 0 /\ Len(slice) > 0 /\ mainPc = "returned") =>
        /\ ret.err = "nil"
        /\ ret.val = [i \in 1..Len(slice) |-> Zero]
        /\ \A i \in 1..Len(slice) : hist.calls[i] = 0

\* ======================================================== ForEachParallel
\* The jobs channel carries the items themselves (chan T); the model sends
\* the item's index, which names the item, so that the invocations of equal
\* items can be told apart.  hist.calls[i] counts the invocations of action
\* begun on item i, hist.ended[i] those that have returned.
ForEachInit ==
    /\ slice \in Slices
    /\ fn = "action"
    /\ config \in Configs
    /\ jobs = <<>> /\ jobsClosed = FALSE /\ disp = 0
    /\ wk = <<>>
    /\ result = <<>> /\ batches = <<>>
    /\ results = <<>> /\ resultsClosed = FALSE /\ resultMap = <<>>
    /\ errors = <<>> /\ done = FALSE /\ ctxDone = FALSE
    /\ mainPc = "start"
    /\ ret = NoRet
    /\ hist = [calls |-> <<>>, ended |-> <<>>]
    /\ NoStreams

\* lines 220-222
ForEachEmpty ==
    /\ mainPc = "start"
    /\ Len(slice) = 0
    /\ mainPc' = "returned"
    /\ UNCHANGED <<restVars, batches, slice, fn, config, jobs, jobsClosed, disp, wk, result,
                   results, resultsClosed, resultMap, errors, done, ctxDone, ret, hist>>

\* lines 224-244: the channel, the workers, the dispatcher
ForEachStart ==
    /\ mainPc = "start"
    /\ Len(slice) # 0
    /\ wk' = [w \in 1..config.WorkerCount |-> Idle]
    /\ disp' = 1
    /\ hist' = [calls |-> [i \in 1..Len(slice) |-> 0], ended |-> [i \in 1..Len(slice) |-> 0]]
    /\ mainPc' = "wait"
    /\ UNCHANGED <<restVars, batches, slice, fn, config, jobs, jobsClosed, result, results,
                   resultsClosed, resultMap, errors, done, ctxDone, ret>>

\* line 242, buffered: jobs <- item
ForEachSend ==
    /\ disp \in 1..Len(slice)
    /\ CanBuffer(jobs, config.BufferSize)
    /\ jobs' = Append(jobs, disp)
    /\ disp' = disp + 1
    /\ UNCHANGED <<restVars, batches, slice, fn, config, jobsClosed, wk, result, results,
                   resultsClosed, resultMap, errors, done, ctxDone, mainPc, ret, hist>>

\* lines 232-233 and 242, unbuffered: the send meets a worker's range, which
\* calls action(item)
ForEachHandoff(w) ==
    /\ disp \in 1..Len(slice)
    /\ config.BufferSize = 0
    /\ wk[w].pc = "recv"
    /\ wk' = Canon([wk EXCEPT ![w] = [pc |-> "call", idx |-> disp, val |-> Zero]])
    /\ hist' = [hist EXCEPT !.calls[disp] = @ + 1]
    /\ disp' = disp + 1
    /\ UNCHANGED <<restVars, batches, slice, fn, config, jobs, jobsClosed, result, results,
                   resultsClosed, resultMap, errors, done, ctxDone, mainPc, ret>>

\* line 240: the deferred close(jobs)
ForEachClose ==
    /\ disp = Len(slice) + 1
    /\ ~jobsClosed
    /\ mainPc # "start"
    /\ jobsClosed' = TRUE
    /\ UNCHANGED <<restVars, batches, slice, fn, config, jobs, disp, wk, result, results,
                   resultsClosed, resultMap, errors, done, ctxDone, mainPc, ret, hist>>

\* lines 232-233: a worker takes the next item and calls action(item)
ForEachRecv(w) ==
    /\ wk[w].pc = "recv"
    /\ jobs # <<>>
    /\ wk' = Canon([wk EXCEPT ![w] = [pc |-> "call", idx |-> Head(jobs), val |-> Zero]])
    /\ hist' = [hist EXCEPT !.calls[Head(jobs)] = @ + 1]
    /\ jobs' = Tail(jobs)
    /\ UNCHANGED <<restVars, batches, slice, fn, config, jobsClosed, disp, result, results,
                   resultsClosed, resultMap, errors, done, ctxDone, mainPc, ret>>

\* line 233: action(item) returns; back to the range
ForEachFinish(w) ==
    /\ wk[w].pc = "call"
    /\ hist' = [hist EXCEPT !.ended[wk[w].idx] = @ + 1]
    /\ wk' = Canon([wk EXCEPT ![w] = Idle])
    /\ UNCHANGED <<restVars, batches, slice, fn, config, jobs, jobsClosed, disp, result, results,
                   resultsClosed, resultMap, errors, done, ctxDone, mainPc, ret>>

\* a worker that leaves its loop as soon as it finds the channel empty
ForEachExitWhenEmpty(w) ==
    /\ wk[w].pc = "recv"
    /\ jobs = <<>>
    /\ wk' = Canon([wk EXCEPT ![w] = Gone])
    /\ UNCHANGED <<restVars, batches, slice, fn, config, jobs, jobsClosed, disp, result, results,
                   resultsClosed, resultMap, errors, done, ctxDone, mainPc, ret, hist>>

\* lines 231-232: the range ends on the closed, drained channel; wg.Done()
ForEachExit(w) ==
    /\ wk[w].pc = "recv"
    /\ jobs = <<>>
    /\ jobsClosed
    /\ wk' = Canon([wk EXCEPT ![w] = Gone])
    /\ UNCHANGED <<restVars, batches, slice, fn, config, jobs, jobsClosed, disp, result, results,
                   resultsClosed, resultMap, errors, done, ctxDone, mainPc, ret, hist>>

\* line 246: wg.Wait() returns
ForEachReturn ==
    /\ mainPc = "wait"
    /\ WgDone
    /\ mainPc' = "returned"
    /\ UNCHANGED <<restVars, batches, slice, fn, config, jobs, jobsClosed, disp, wk, result,
                   results, resultsClosed, resultMap, errors, done, ctxDone, ret, hist>>

ForEachNext ==
    \/ ForEachEmpty
    \/ ForEachStart
    \/ ForEachSend
    \/ ForEachClose
    \/ ForEachReturn
    \/ \E w \in DOMAIN wk :
        \/ ForEachHandoff(w)
        \/ ForEachRecv(w)
        \/ ForEachFinish(w)
        \/ ForEachExit(w)

SpecForEach == ForEachInit /\ [][ForEachNext]_vars

\* the invocations of action in progress
Running == {w \in DOMAIN wk : wk[w].pc = "call"}

\* C22: ForEachParallel with WorkerCount >= 1 returns only after the action
\* has been invoked exactly once for every item of the input and every
\* invocation has completed; at no time are more than WorkerCount
\* invocations running (and none is invoked twice).
C22_ForEachEveryItemOnce ==
    /\ (mainPc = "returned" /\ Len(slice) > 0) =>
          \A i \in 1..Len(slice) : hist.calls[i] = 1 /\ hist.ended[i] = 1
    /\ \A i \in DOMAIN hist.calls : hist.calls[i] <= 1
    /\ Cardinality(Running) <= config.WorkerCount
    /\ mainPc = "returned" => Running = {}

\* C22 witness: a call with at least two workers and two items has returned,
\* every invocation completed.
C22_Witness ==
    /\ mainPc = "returned"
    /\ Len(slice) >= 2
    /\ config.WorkerCount >= 2
    /\ \A i \in 1..Len(slice) : hist.ended[i] = 1

\* C22 witness: as many invocations as workers are running at once
C22_WitnessAllBusy ==
    /\ config.WorkerCount >= 2
    /\ Cardinality(Running) = config.WorkerCount

\* ============================================== MapParallel (map.go)
\* line 35: shorter inputs are mapped sequentially; line 42: the pool size
SeqThreshold == 100
PoolSize == 10
MaxChunkExtra == 9   \* the pool is run on SeqThreshold and SeqThreshold + MaxChunkExtra items

\* inputs of the lengths around the threshold; item i is i modulo MaxVal
MapChunkLens == {0, 1, SeqThreshold - 1, SeqThreshold, SeqThreshold + MaxChunkExtra}
MapChunkInputs == {[i \in 1..n |-> (i % MaxVal) + 1] : n \in MapChunkLens}

\* In this function the calling goroutine is the dispatcher: disp holds its
\* loop counters, i of lines 65-72 and w of lines 76-78; config holds the
\* locals numWorkers and chunkSize; results is the buffer of the done channel;
\* a worker holding job{start, end} has idx = start and val = end.
MapChunkInit ==
    /\ slice \in MapChunkInputs
    /\ fn \in {"inc"}
    /\ config = [numWorkers |-> 0, chunkSize |-> 0]
    /\ jobs = <<>> /\ jobsClosed = FALSE /\ disp = [i |-> 0, w |-> 0]
    /\ wk = <<>>
    /\ result = <<>> /\ batches = <<>>
    /\ results = <<>> /\ resultsClosed = FALSE /\ resultMap = <<>>
    /\ errors = <<>> /\ done = FALSE /\ ctxDone = FALSE
    /\ mainPc = "start"
    /\ ret = NoRet
    /\ hist = NoHist
    /\ NoStreams

\* lines 35-37
MapChunkSmall ==
    /\ mainPc = "start"
    /\ Len(slice) < SeqThreshold
    /\ mainPc' = "returned"
    /\ ret' = [val |-> Map(slice, fn), isNil |-> FALSE, err |-> "nil"]
    /\ UNCHANGED <<restVars, batches, slice, fn, config, jobs, jobsClosed, disp, wk, result,
                   results, resultsClosed, resultMap, errors, done, ctxDone, hist>>

\* lines 39-62: result, numWorkers, chunkSize, the channels, the workers
MapChunkStart ==
    /\ mainPc = "start"
    /\ ~(Len(slice) < SeqThreshold)
    /\ result' = [i \in 1..Len(slice) |-> Zero]
    /\ LET numWorkers == Min(Len(slice), PoolSize)
       IN  /\ config' = [numWorkers |-> numWorkers, chunkSize |-> Len(slice) \div numWorkers]
           /\ wk' = [w \in 1..numWorkers |-> Idle]
    /\ hist' = [calls |-> [i \in 1..Len(slice) |-> 0]]
    /\ mainPc' = "send"
    /\ UNCHANGED <<restVars, batches, slice, fn, jobs, jobsClosed, disp, results,
                   resultsClosed, resultMap, errors, done, ctxDone, ret>>

\* a last job that ends where the others do, leaving the remainder out
JobEven(i, numWorkers, chunkSize, n) ==
    [start |-> i * chunkSize, end |-> i * chunkSize + chunkSize]

\* lines 66-70: the i-th job (i from 0), of a slice of n items
Job(i, numWorkers, chunkSize, n) ==
    [start |-> i * chunkSize,
     end |-> IF i = numWorkers - 1 THEN n ELSE i * chunkSize + chunkSize]

\* the jobs of lines 65-72 in the order they are sent
AllJobs(numWorkers, chunkSize, n) ==
    [k \in 1..numWorkers |-> Job(k - 1, numWorkers, chunkSize, n)]

\* lines 65-73: the calling goroutine sends the numWorkers jobs and closes the
\* channel; jobs has capacity numWorkers, so no send waits for a worker
MapChunkDispatch ==
    /\ mainPc = "send"
    /\ jobs' = jobs \o AllJobs(config.numWorkers, config.chunkSize, Len(slice))
    /\ disp' = [disp EXCEPT !.i = config.numWorkers]
    /\ jobsClosed' = TRUE
    /\ mainPc' = "wait"
    /\ UNCHANGED <<restVars, batches, slice, fn, config, wk, result, results,
                   resultsClosed, resultMap, errors, done, ctxDone, ret, hist>>

\* line 55: a worker takes the next job
MapChunkRecv(w) ==
    /\ wk[w].pc = "recv"
    /\ jobs # <<>>
    /\ wk' = Canon([wk EXCEPT ![w] =
                [pc |-> "work", idx |-> Head(jobs).start, val |-> Head(jobs).end]])
    /\ jobs' = Tail(jobs)
    /\ UNCHANGED <<restVars, batches, slice, fn, config, jobsClosed, disp, result, results,
                   resultsClosed, resultMap, errors, done, ctxDone, mainPc, ret, hist>>

\* lines 56-58: the worker maps the indices start .. end-1 of its job (the
\* indices are Go's, from 0; the sequences are indexed from 1)
MapChunkWork(w) ==
    /\ wk[w].pc = "work"
    /\ result' = [i \in 1..Len(slice) |->
                    IF wk[w].idx < i /\ i <= wk[w].val THEN Mapper(fn, slice[i])
                    ELSE result[i]]
    /\ hist' = [calls |-> [i \in 1..Len(slice) |->
                    IF wk[w].idx < i /\ i <= wk[w].val THEN hist.calls[i] + 1
                    ELSE hist.calls[i]]]
    /\ wk' = Canon([wk EXCEPT ![w] = Idle])
    /\ UNCHANGED <<restVars, batches, slice, fn, config, jobs, jobsClosed, disp, results,
                   resultsClosed, resultMap, errors, done, ctxDone, mainPc, ret>>

\* lines 55 and 60: the range ends on the closed, drained channel and the
\* worker sends on done, which has room for every worker
MapChunkExit(w) ==
    /\ wk[w].pc = "recv"
    /\ jobs = <<>>
    /\ jobsClosed
    /\ CanBuffer(results, config.numWorkers)
    /\ results' = Append(results, TRUE)
    /\ wk' = Canon([wk EXCEPT ![w] = Gone])
    /\ UNCHANGED <<restVars, batches, slice, fn, config, jobs, jobsClosed, disp, result,
                   resultsClosed, resultMap, errors, done, ctxDone, mainPc, ret, hist>>

\* lines 76-78: <-done
MapChunkWaitOne ==
    /\ mainPc = "wait"
    /\ disp.w < config.numWorkers
    /\ results # <<>>
    /\ results' = Tail(results)
    /\ disp' = [disp EXCEPT !.w = @ + 1]
    /\ UNCHANGED <<restVars, batches, slice, fn, config, jobs, jobsClosed, wk, result,
                   resultsClosed, resultMap, errors, done, ctxDone, mainPc, ret, hist>>

\* line 80
MapChunkReturn ==
    /\ mainPc = "wait"
    /\ disp.w = config.numWorkers
    /\ mainPc' = "returned"
    /\ ret' = [val |-> result, isNil |-> FALSE, err |-> "nil"]
    /\ UNCHANGED <<restVars, batches, slice, fn, config, jobs, jobsClosed, disp, wk, result,
                   results, resultsClosed, resultMap, errors, done, ctxDone, hist>>

MapChunkNext ==
    \/ MapChunkSmall
    \/ MapChunkStart
    \/ MapChunkDispatch
    \/ MapChunkWaitOne
    \/ MapChunkReturn
    \/ \E w \in DOMAIN wk :
        \/ MapChunkRecv(w)
        \/ MapChunkWork(w)
        \/ MapChunkExit(w)

SpecMapChunk == MapChunkInit /\ [][MapChunkNext]_vars

\* the jobs have just been sent: none taken yet
Dispatched == mainPc = "wait" /\ Len(jobs) = config.numWorkers

\* C23: MapParallel(S, f) equals sequential Map(S, f) for every length of S:
\* inputs shorter than 100 are mapped sequentially, and for longer inputs the
\* index ranges handed to the 10 workers are pairwise disjoint and together
\* cover exactly 0..len(S)-1 (the last range taking the remainder), so every
\* index is written exactly once before the call returns.
C23_MapParallelEqualsMap ==
    /\ mainPc = "returned" => ret.val = Map(slice, fn)
    /\ (mainPc = "returned" /\ Len(slice) < SeqThreshold) => wk = <<>>
    /\ (mainPc = "returned" /\ Len(slice) >= SeqThreshold) =>
          /\ Len(wk) = PoolSize
          /\ \A i \in 1..Len(slice) : hist.calls[i] = 1
    /\ \A i \in DOMAIN hist.calls : hist.calls[i] <= 1
    /\ Dispatched =>
          /\ Len(jobs) = PoolSize
          /\ \A k \in 0..(Len(slice) - 1) :
                Cardinality({j \in 1..Len(jobs) : jobs[j].start <= k /\ k < jobs[j].end}) = 1
          /\ \A j \in 1..Len(jobs) : 0 <= jobs[j].start /\ jobs[j].end <= Len(slice)
          /\ \A j \in 1..(Len(jobs) - 1) :
                jobs[j].end - jobs[j].start = Len(slice) \div PoolSize
          /\ jobs[Len(jobs)].end = Len(slice)

\* C23 witness: a slice whose length is not a multiple of 10 has been mapped
\* by the pool: the last range took the remainder.
C23_Witness ==
    /\ mainPc = "returned"
    /\ Len(slice) > SeqThreshold
    /\ Len(slice) % PoolSize # 0
    /\ ret.val = Map(slice, fn)

\* C23 witness: an input of 99 items was mapped without the pool
C23_WitnessSequential ==
    /\ mainPc = "returned"
    /\ Len(slice) = SeqThreshold - 1
    /\ wk = <<>>

\* ------------------------------- MapParallelWithConfig: who holds which index
\* the workers between their receive and the end of line 44
AtWork == {w \in DOMAIN wk : wk[w].pc = "work"}

\* where index i is: still with the dispatcher, in the channel, with a worker
IndexHolders(i) ==
    (IF disp # 0 /\ i >= disp THEN 1 ELSE 0)
    + Cardinality({j \in 1..Len(jobs) : jobs[j] = i})
    + Cardinality({w \in AtWork : wk[w].idx = i})

\* C24: in MapParallelWithConfig with WorkerCount W >= 1 every index of the
\* input is taken from the job queue by exactly one worker, so the per-item
\* function runs exactly once per index, no two workers ever write the same
\* output index, at most W per-item calls are in progress at any time, and no
\* write to the output happens after the call has returned.
C24_OneWorkerPerIndex ==
    /\ \A i \in DOMAIN hist.calls :
          /\ hist.calls[i] + IndexHolders(i) = 1
          /\ hist.calls[i] = 0 => result[i] = Zero
    /\ \A v, w \in AtWork : v # w => wk[v].idx # wk[w].idx
    /\ Cardinality(AtWork) <= config.WorkerCount
    /\ (mainPc = "returned" /\ DOMAIN wk # {}) =>
          /\ AtWork = {} /\ jobs = <<>> /\ disp = Len(slice) + 1
          /\ \A i \in 1..Len(slice) : hist.calls[i] = 1
          /\ ret.val = result

\* C24 witness: as many workers as WorkerCount, at least two, are inside the
\* per-item call at once, each on its own index.
C24_Witness ==
    /\ config.WorkerCount >= 2
    /\ Cardinality(AtWork) = config.WorkerCount
    /\ \E i \in DOMAIN hist.calls : hist.calls[i] = 1

\* ------------------------- MapWithContext: what starts after an error
\* the indices on which the mapper has been called (returned or in progress)
Begun ==
    {i \in DOMAIN hist.calls : hist.calls[i] > 0}
    \cup {wk[w].idx : w \in {v \in DOMAIN wk : wk[v].pc = "call"}}

\* C25: in MapWithContext (and BatchProcessor.Process) once any worker has
\* recorded an error, no worker starts the per-item function on a further
\* item: items already in progress may finish, but no new job is dispatched
\* to or begun by any worker after that point (stated over the steps taken
\* while the context is not cancelled, where the recorded error is one the
\* mapper returned).
C25_NoNewWorkAfterError ==
    [][(errors # <<>> /\ ~ctxDone) => Begun' \subseteq Begun]_vars

\* ------------------------------------- Stream: what Take takes from upstream
\* C26: once Take(n) has forwarded n items it receives no further item from
\* its upstream and closes its output without waiting for upstream; so an
\* upstream shared channel loses no (n+1)-th item: with Take(n) the only
\* stage on NewStreamFromChannel(ch), ch never holds fewer than its items
\* beyond the first n.
C26_TakeLeavesTheRest ==
    (/\ source.kind = "channel"
     /\ term.runs = 1
     /\ Len(RunStages) = 1 /\ RunStages[1].op = "Take") =>
        Len(chans[1].buf) >= Len(source.items) - RunStages[1].arg

\* what Take does take: never more than one item beyond the n it forwards
C26_TakeTakesAtMostOneMore ==
    (/\ source.kind = "channel"
     /\ term.runs = 1
     /\ Len(RunStages) = 1 /\ RunStages[1].op = "Take") =>
        Len(chans[1].buf) >= Len(source.items) - RunStages[1].arg - 1

\* ============================================== Stream: WithContext
\* the sources WithContext is run on: a slice, a channel whose owner never
\* closes it, InfiniteStream
CtxSources == [kind : {"slice", "open", "infinite"}, items : RunSlices]

StreamCtxInit ==
    /\ NoPool
    /\ heap = <<>>
    /\ streams = <<[arr |-> 0, len |-> 0, cap |-> 0, made |-> <<>>]>>
    /\ lastRun = NoRun
    /\ source \in CtxSources
    /\ stageFn = <<>> /\ tasks = <<>> /\ chans = <<>>
    /\ term = NoTerm
    /\ NoLimiter /\ NoPipeline

ChainWithContext == ChainStage([op |-> "WithContext", arg |-> "ctx"])

\* the owner of the context calls cancel(), or its deadline passes
StreamCancel ==
    /\ ~ctxDone
    /\ ctxDone' = TRUE
    /\ UNCHANGED <<restVars, slice, fn, config, batches, jobs, jobsClosed, disp, wk, result,
                   results, resultsClosed, resultMap, errors, done, mainPc, ret, hist>>

\* a WithContext stage that watches ctx.Done() only while it sends
CtxStageCancelAtSend(j) ==
    /\ j > 1
    /\ StageOf(j).op = "WithContext"
    /\ tasks[j].pc = "send"
    /\ ctxDone
    /\ LET m == Moved(tasks, chans, j, [tasks[j] EXCEPT !.pc = "done", !.item = 0])
       IN  tasks' = m.tasks2 /\ chans' = m.chans2
    /\ UNCHANGED <<poolVars, buildVars, source, stageFn, term, limiter, pipe>>

\* lines 271-272 and 274-275: either select of the WithContext stage takes
\* ctx.Done(); the stage returns and the deferred close(output) runs, the item
\* it holds, if any, is dropped
CtxStageCancel(j) ==
    /\ j > 1
    /\ StageOf(j).op = "WithContext"
    /\ tasks[j].pc \in {"recv", "send"}
    /\ ctxDone
    /\ LET m == Moved(tasks, chans, j, [tasks[j] EXCEPT !.pc = "done", !.item = 0])
       IN  tasks' = m.tasks2 /\ chans' = m.chans2
    /\ UNCHANGED <<poolVars, buildVars, source, stageFn, term, limiter, pipe>>

StreamCtxNext ==
    \/ \E f \in {"square"} : ChainMap(f)
    \/ ChainWithContext
    \/ StreamCancel
    \/ \E kind \in Terminals : TerminalCall(kind)
    \/ \E j \in DOMAIN tasks :
        \/ TaskPut(j)
        \/ TaskHandoff(j)
        \/ TaskGet(j)
        \/ TaskEnd(j)
        \/ CtxStageCancel(j)
    \/ TermHandoff
    \/ TermGet
    \/ TermEnd

SpecStreamCtx == StreamCtxInit /\ [][StreamCtxNext]_vars

\* the WithContext stages of the running pipeline
CtxStages == {j \in DOMAIN tasks : j > 1 /\ StageOf(j).op = "WithContext"}

\* C28: once the context given to WithContext has been cancelled, the
\* WithContext stage forwards no further item to its downstream: it closes
\* its output immediately, dropping any item it has received but not yet
\* forwarded.
C28_NoForwardAfterCancel ==
    [][ctxDone => \A j \in CtxStages : tasks[j].pc = "send" => tasks'[j].pc \in {"send", "done"}]_vars

\* what does hold: a WithContext stage that has seen the cancellation is
\* closed for good and holds no item
C28_ClosedStageHoldsNothing ==
    \A j \in CtxStages : tasks[j].pc = "done" => chans[j].closed /\ tasks[j].item = 0

\* every goroutine that can take a step eventually takes one
SpecStreamCtxFair == SpecStreamCtx /\ WF_vars(StreamCtxNext)

\* the last stage of the running pipeline is a WithContext stage
LastIsWithContext ==
    IF Len(tasks) > 1 THEN StageOf(Len(tasks)).op = "WithContext" ELSE FALSE

\* task j of the running pipeline is a WithContext stage; its output is closed
IsCtxStage(j) == IF j \in DOMAIN tasks THEN StageOf(j).op = "WithContext" ELSE FALSE
OutputClosed(j) == IF j \in DOMAIN chans THEN chans[j].closed ELSE FALSE

C29_WitnessBlockedOnSend ==
    /\ ctxDone
    /\ term.kind = "AnyMatch" /\ term.pc = "returned"
    /\ LastIsWithContext
    /\ OutputClosed(Len(tasks))
    /\ Len(term.out) < Len(source.items)

\* ================================================ Stream: Parallel
MaxParWorkers == 2   \* largest workerCount of Parallel

\* The goroutines the Parallel closure starts are kept in the variables of
\* the worker pools: disp is the goroutine of lines 211-216, [pc, item]; jobs
\* and results are the buffers of the two channels, each of capacity
\* workerCount*2; wk are the workers; tasks[j] is the stage's own goroutine,
\* which ranges over results and sends on output.
ParSources ==
    [kind : {"slice", "channel"}, items : RunSlices]
    \cup {[kind |-> "range", items |-> [i \in 1..(e - 1) |-> i]] : e \in 1..(MaxRunLen + 1)}

\* no dispatcher runs before the Parallel stage is started
NoDispatcher == [pc |-> "none", item |-> 0]

StreamParInit ==
    /\ slice = <<>> /\ fn = "none" /\ config = [WorkerCount |-> 1, BufferSize |-> 0]
    /\ jobs = <<>> /\ jobsClosed = FALSE /\ disp = NoDispatcher
    /\ wk = <<>>
    /\ result = <<>> /\ batches = <<>>
    /\ results = <<>> /\ resultsClosed = FALSE /\ resultMap = <<>>
    /\ errors = <<>> /\ done = FALSE /\ ctxDone = FALSE
    /\ mainPc = "none"
    /\ ret = NoRet
    /\ hist = NoHist
    /\ heap = <<>>
    /\ streams = <<[arr |-> 0, len |-> 0, cap |-> 0, made |-> <<>>]>>
    /\ lastRun = NoRun
    /\ source \in ParSources
    /\ stageFn = <<>> /\ tasks = <<>> /\ chans = <<>>
    /\ term = NoTerm
    /\ NoLimiter /\ NoPipeline

ChainParallel(n, f) == ChainStage([op |-> "Parallel", arg |-> [workerCount |-> n, processor |-> f]])

\* what the Parallel stage leaves alone
parRest == <<slice, fn, config, batches, result, resultMap, errors, done, ctxDone, mainPc,
             ret, hist, buildVars, source, stageFn, term, limiter, pipe>>

ParallelAt(j) == j > 1 /\ StageOf(j).op = "Parallel"
\* line 196-197: the capacity of jobs and of results
ParCap(j) == StageOf(j).arg.workerCount * 2

\* lines 195-222: the stage's goroutine makes the channels and starts the
\* workers, the dispatcher and the closer, then ranges over results
ParStart(j) ==
    /\ ParallelAt(j)
    /\ tasks[j].pc = "start"
    /\ wk' = [w \in 1..StageOf(j).arg.workerCount |-> Idle]
    /\ disp' = [pc |-> "recv", item |-> 0]
    /\ tasks' = [tasks EXCEPT ![j].pc = "take"]
    /\ UNCHANGED <<parRest, chans, jobs, jobsClosed, results, resultsClosed>>

\* line 213: the dispatcher's range meets the unbuffered send of the stage
\* (or source) before it
ParDispHandoff(j) ==
    /\ ParallelAt(j)
    /\ tasks[j].pc # "start"
    /\ disp.pc = "recv"
    /\ tasks[j - 1].pc = "send"
    /\ chans[j - 1].cap = 0
    /\ LET m == Moved(tasks, chans, j - 1, AfterSend(j - 1))
       IN  tasks' = m.tasks2 /\ chans' = m.chans2
    /\ disp' = [pc |-> "send", item |-> tasks[j - 1].item]
    /\ UNCHANGED <<parRest, wk, jobs, jobsClosed, results, resultsClosed>>

\* line 213: the dispatcher's range takes an item from a buffered input
ParDispGet(j) ==
    /\ ParallelAt(j)
    /\ tasks[j].pc # "start"
    /\ disp.pc = "recv"
    /\ chans[j - 1].buf # <<>>
    /\ chans' = [chans EXCEPT ![j - 1].buf = Tail(@)]
    /\ disp' = [pc |-> "send", item |-> Head(chans[j - 1].buf)]
    /\ UNCHANGED <<parRest, tasks, wk, jobs, jobsClosed, results, resultsClosed>>

\* line 214: jobs <- item
ParDispPut(j) ==
    /\ ParallelAt(j)
    /\ tasks[j].pc # "start"
    /\ disp.pc = "send"
    /\ CanBuffer(jobs, ParCap(j))
    /\ jobs' = Append(jobs, disp.item)
    /\ disp' = [pc |-> "recv", item |-> 0]
    /\ UNCHANGED <<parRest, tasks, chans, wk, jobsClosed, results, resultsClosed>>

\* lines 212-213: the input is closed and drained; the deferred close(jobs)
ParDispEnd(j) ==
    /\ ParallelAt(j)
    /\ tasks[j].pc # "start"
    /\ disp.pc = "recv"
    /\ chans[j - 1].buf = <<>>
    /\ chans[j - 1].closed
    /\ disp' = [pc |-> "done", item |-> 0]
    /\ jobsClosed' = TRUE
    /\ UNCHANGED <<parRest, tasks, chans, wk, jobs, results, resultsClosed>>

\* lines 204-205: a worker takes a job and calls processor(job)
ParWorkerRecv(j, w) ==
    /\ ParallelAt(j)
    /\ wk[w].pc = "recv"
    /\ jobs # <<>>
    /\ LET v == Mapper(StageOf(j).arg.processor, Head(jobs))
       IN  wk' = Canon([wk EXCEPT ![w] = [pc |-> "send", idx |-> v, val |-> v]])
    /\ jobs' = Tail(jobs)
    /\ UNCHANGED <<parRest, tasks, chans, disp, jobsClosed, results, resultsClosed>>

\* line 205: results <- the value processor returned
ParWorkerPut(j, w) ==
    /\ ParallelAt(j)
    /\ wk[w].pc = "send"
    /\ CanBuffer(results, ParCap(j))
    /\ results' = Append(results, wk[w].val)
    /\ wk' = Canon([wk EXCEPT ![w] = Idle])
    /\ UNCHANGED <<parRest, tasks, chans, disp, jobs, jobsClosed, resultsClosed>>

\* lines 203-204: the worker's range ends on the closed, drained jobs
ParWorkerExit(j, w) ==
    /\ ParallelAt(j)
    /\ wk[w].pc = "recv"
    /\ jobs = <<>>
    /\ jobsClosed
    /\ wk' = Canon([wk EXCEPT ![w] = Gone])
    /\ UNCHANGED <<parRest, tasks, chans, disp, jobs, jobsClosed, results, resultsClosed>>

\* a closer that waits for one worker only
ParCloseResultsEarly(j) ==
    /\ ParallelAt(j)
    /\ tasks[j].pc # "start"
    /\ WgDoneEarly
    /\ ~resultsClosed
    /\ resultsClosed' = TRUE
    /\ UNCHANGED <<parRest, tasks, chans, disp, wk, jobs, jobsClosed, results>>

\* lines 219-222: wg.Wait(); close(results)
ParCloseResults(j) ==
    /\ ParallelAt(j)
    /\ tasks[j].pc # "start"
    /\ WgDone
    /\ ~resultsClosed
    /\ resultsClosed' = TRUE
    /\ UNCHANGED <<parRest, tasks, chans, disp, wk, jobs, jobsClosed, results>>

\* a stage that would take the newest result instead of the oldest
ParTakeNewest(j) ==
    /\ ParallelAt(j)
    /\ tasks[j].pc = "take"
    /\ results # <<>>
    /\ tasks' = [tasks EXCEPT ![j].pc = "send", ![j].item = results[Len(results)]]
    /\ results' = SubSeq(results, 1, Len(results) - 1)
    /\ UNCHANGED <<parRest, chans, disp, wk, jobs, jobsClosed, resultsClosed>>

\* line 224: the stage's range takes a result; line 225 is its send on output
ParTake(j) ==
    /\ ParallelAt(j)
    /\ tasks[j].pc = "take"
    /\ results # <<>>
    /\ tasks' = [tasks EXCEPT ![j].pc = "send", ![j].item = Head(results)]
    /\ results' = Tail(results)
    /\ UNCHANGED <<parRest, chans, disp, wk, jobs, jobsClosed, resultsClosed>>

\* lines 193 and 224: results is closed and drained; the deferred close(output)
ParEnd(j) ==
    /\ ParallelAt(j)
    /\ tasks[j].pc = "take"
    /\ results = <<>>
    /\ resultsClosed
    /\ LET m == Moved(tasks, chans, j, [tasks[j] EXCEPT !.pc = "done"])
       IN  tasks' = m.tasks2 /\ chans' = m.chans2
    /\ UNCHANGED <<parRest, disp, wk, jobs, jobsClosed, results, resultsClosed>>

\* the steps of the goroutines of a Parallel stage
ParallelNext ==
    \E j \in DOMAIN tasks :
        \/ ParStart(j)
        \/ ParDispHandoff(j)
        \/ ParDispGet(j)
        \/ ParDispPut(j)
        \/ ParDispEnd(j)
        \/ ParCloseResults(j)
        \/ ParTake(j)
        \/ ParEnd(j)
        \/ \E w \in DOMAIN wk :
            \/ ParWorkerRecv(j, w)
            \/ ParWorkerPut(j, w)
            \/ ParWorkerExit(j, w)

StreamParNext ==
    \/ \E f \in {"inc"} : ChainMap(f)
    \/ \E n \in 1..MaxParWorkers : ChainParallel(n, "square")
    \/ \E kind \in Terminals : TerminalCall(kind)
    \/ \E j \in DOMAIN tasks :
        \/ TaskPut(j)
        \/ TaskHandoff(j)
        \/ TaskGet(j)
        \/ TaskEnd(j)
    \/ ParallelNext
    \/ TermHandoff
    \/ TermGet
    \/ TermEnd

SpecStreamPar == StreamParInit /\ [][StreamParNext]_vars

\* how often v occurs in s
Occurrences(s, v) == Cardinality({i \in DOMAIN s : s[i] = v})
\* s is a permutation of r
IsPermutation(s, r) ==
    /\ Len(s) = Len(r)
    /\ \A i \in DOMAIN r : Occurrences(s, r[i]) = Occurrences(r, r[i])

\* the items the Parallel stage j has received that are still inside it, as
\* the values they have or will have after processor
InsideParallel(j) ==
    (IF disp.pc = "send" THEN <<Mapper(StageOf(j).arg.processor, disp.item)>> ELSE <<>>)
    \o [i \in 1..Len(jobs) |-> Mapper(StageOf(j).arg.processor, jobs[i])]
    \o [w \in 1..Cardinality({v \in DOMAIN wk : wk[v].pc = "send"}) |->
            wk[CHOOSE v \in DOMAIN wk :
                    wk[v].pc = "send"
                    /\ Cardinality({u \in DOMAIN wk : wk[u].pc = "send" /\ u < v}) = w - 1].val]
    \o results
    \o (IF tasks[j].pc = "send" THEN <<tasks[j].item>> ELSE <<>>)

\* C30: for a finite upstream and workerCount >= 1 the Parallel(workerCount,
\* processor) stage emits exactly one output processor(x) for each item x it
\* receives, with no item lost or duplicated (the output is a permutation of
\* the mapped input), and it closes its output only after all workers have
\* finished and every result has been forwarded.
C30_ParallelMapsEveryItemOnce ==
    /\ (/\ term.pc = "returned" /\ term.kind = "Collect"
        /\ Len(RunStages) = 1 /\ RunStages[1].op = "Parallel") =>
          IsPermutation(term.val, Map(source.items, RunStages[1].arg.processor))
    /\ \A j \in DOMAIN tasks :
          (ParallelAt(j) /\ tasks[j].pc # "start") =>
            /\ (term.kind = "Collect" /\ Len(tasks) = 2) =>
                  IsPermutation(term.out \o InsideParallel(j) \o
                                    [i \in 1..Len(chans[j - 1].buf) |->
                                        Mapper(StageOf(j).arg.processor, chans[j - 1].buf[i])]
                                    \o (IF tasks[j - 1].pc = "send"
                                        THEN Map(SubSeq(source.items, tasks[j - 1].count + 1,
                                                        Len(source.items)),
                                                 StageOf(j).arg.processor)
                                        ELSE <<>>),
                                Map(source.items, StageOf(j).arg.processor))
            /\ chans[j].closed =>
                  /\ WgDone /\ resultsClosed /\ jobsClosed
                  /\ jobs = <<>> /\ results = <<>>
                  /\ tasks[j].pc = "done"

\* C30 witness: Collect after Parallel with two workers has returned three
\* results, and they arrived in an order other than the input's.
C30_Witness ==
    /\ term.pc = "returned" /\ term.kind = "Collect"
    /\ Len(RunStages) = 1 /\ RunStages[1].op = "Parallel"
    /\ RunStages[1].arg.workerCount = 2
    /\ Len(source.items) = 3
    /\ Len(term.val) = 3
    /\ term.val # Map(source.items, RunStages[1].arg.processor)

\* ===================================== Stream: chains of every stage kind
MaxAllStages == 2    \* stages chained when every kind of stage is on offer

ChainSkip(n) == ChainStage([op |-> "Skip", arg |-> n])
ChainDistinct == ChainStage([op |-> "Distinct", arg |-> "equal"])
ChainBuffer(size) == ChainStage([op |-> "Buffer", arg |-> size])

\* a chain of at most MaxAllStages stages picked among Map, Filter, Take,
\* Skip, Distinct, Buffer and Parallel, on a finite source
StreamAllChain ==
    /\ Len(stageFn) < MaxAllStages
    /\ \/ ChainMap("inc")
       \/ ChainFilter("even")
       \/ ChainTake(1)
       \/ ChainSkip(1)
       \/ ChainDistinct
       \/ ChainBuffer(1)
       \/ \E n \in 1..MaxParWorkers : ChainParallel(n, "square")

StreamAllNext ==
    \/ StreamAllChain
    \/ \E kind \in Terminals : TerminalCall(kind)
    \/ \E j \in DOMAIN tasks :
        \/ TaskPut(j)
        \/ TaskHandoff(j)
        \/ TaskGet(j)
        \/ TaskEnd(j)
    \/ ParallelNext
    \/ TermHandoff
    \/ TermGet
    \/ TermEnd

\* the finite sources: NewStream over a slice
AllSources == {src \in ParSources : src.kind = "slice"}

StreamAllInit ==
    /\ StreamParInit
    /\ source \in AllSources

SpecStreamAll == StreamAllInit /\ [][StreamAllNext]_vars

\* every goroutine that can take a step eventually takes one
SpecStreamAllFair == SpecStreamAll /\ WF_vars(StreamAllNext)

\* the channel stage task j reads is closed
InputClosed(j) == IF j > 1 /\ j \in DOMAIN chans THEN chans[j - 1].closed ELSE FALSE

\* C27: for a finite source and any chain of Map, Filter, Take, Skip,
\* Distinct, Buffer and Parallel stages, each stage closes its output after
\* its upstream has closed, so that closure propagates stage by stage to the
\* last one (and every terminal operation eventually returns).
C27_ClosurePropagates ==
    \A j \in 2..(MaxAllStages + 1) : InputClosed(j) ~> OutputClosed(j)

\* the part of C27 that holds: every terminal operation eventually returns
C27_TerminalsReturn == (term.pc = "recv") ~> (term.pc = "returned")

\* a stage closes its output before its input is closed only if it is Take
C27_OnlyTakeClosesFirst ==
    \A j \in DOMAIN tasks :
        (j > 1 /\ chans[j].closed /\ ~chans[j - 1].closed) => StageOf(j).op = "Take"

\* what is left of C27 when nothing stops consuming: no Take in the chain and
\* a terminal operation that ranges over the whole stream
C27_ClosurePropagatesWhenDrained ==
    \A j \in 2..(MaxAllStages + 1) :
        (/\ InputClosed(j)
         /\ term.kind \in {"Collect", "ForEach", "Reduce", "Count"}
         /\ \A k \in 1..Len(lastRun.stages) : stageFn[lastRun.stages[k]].op # "Take")
        ~> OutputClosed(j)

\* ------------------------------------------- Parallel: order of the output
\* Collect has returned from a chain made of one Parallel stage
ParallelCollected ==
    /\ term.pc = "returned" /\ term.kind = "Collect"
    /\ Len(RunStages) = 1 /\ RunStages[1].op = "Parallel"

\* C31: the Parallel stage does not guarantee that output order equals input
\* order: with workerCount >= 2 and at least two input items there is an
\* execution in which the results come out in another order (C31_Witness is
\* that execution); with one worker, or fewer than two items, the order is
\* the input's.
C31_ReorderNeedsTwoWorkers ==
    (ParallelCollected /\ term.val # Map(source.items, RunStages[1].arg.processor)) =>
        /\ RunStages[1].arg.workerCount >= 2
        /\ Len(source.items) >= 2

\* C31 witness: Parallel with two workers on the two items 1, 2 gave Collect
\* the results in the reverse order, 4 before 1.
C31_Witness ==
    /\ ParallelCollected
    /\ RunStages[1].arg.workerCount = 2
    /\ source.items = <<1, 2>>
    /\ term.val = <<4, 1>>

\* ============================== Stream: AnyMatch and FindFirst on a match
\* NewStream over a slice, and InfiniteStream over a generator
MatchSources == [kind : {"slice", "infinite"}, items : RunSlices]

StreamMatchInit ==
    /\ NoPool
    /\ heap = <<>>
    /\ streams = <<[arr |-> 0, len |-> 0, cap |-> 0, made |-> <<>>]>>
    /\ lastRun = NoRun
    /\ source \in MatchSources
    /\ stageFn = <<>> /\ tasks = <<>> /\ chans = <<>>
    /\ term = NoTerm
    /\ NoLimiter /\ NoPipeline

StreamMatchNext ==
    \/ \E f \in {"inc"} : ChainMap(f)
    \/ \E kind \in {"AnyMatch", "FindFirst"} : TerminalCall(kind)
    \/ \E j \in DOMAIN tasks :
        \/ TaskPut(j)
        \/ TaskHandoff(j)
        \/ TaskGet(j)
        \/ TaskEnd(j)
    \/ TermHandoff
    \/ TermGet
    \/ TermEnd

SpecStreamMatch == StreamMatchInit /\ [][StreamMatchNext]_vars

\* every goroutine that can take a step eventually takes one
SpecStreamMatchFair == SpecStreamMatch /\ WF_vars(StreamMatchNext)

\* what the pipeline of Map stages makes of the items the source yields
MatchOutput ==
    IF Len(RunStages) = 0 THEN source.items ELSE Map(source.items, RunStages[1].arg)

\* the index of the first item of s that satisfies p, 0 when there is none
FirstMatchAt(s, p) ==
    IF \E i \in DOMAIN s : Predicate(p, s[i])
    THEN CHOOSE i \in DOMAIN s :
            Predicate(p, s[i]) /\ \A k \in 1..(i - 1) : ~Predicate(p, s[k])
    ELSE 0

\* the terminal operation has returned the answer of the first match, having
\* received the pipeline's output up to that item and nothing after it
MatchAnswered ==
    LET at == FirstMatchAt(MatchOutput, "even")
    IN  term.pc = "returned" =>
          IF at > 0
          THEN /\ term.out = SubSeq(MatchOutput, 1, at)
               /\ term.val = IF term.kind = "FindFirst" THEN <<MatchOutput[at]>> ELSE <<TRUE>>
          ELSE /\ source.kind = "slice"
               /\ term.out = MatchOutput
               /\ term.val = IF term.kind = "FindFirst" THEN <<>> ELSE <<FALSE>>

\* C32: AnyMatch and FindFirst stop pulling at the first match: FindFirst(p)
\* returns Some(x) for the first item x of the pipeline's output that
\* satisfies p (Empty if a finite stream has none), AnyMatch(p) returns true
\* at that same item, after the match the terminal operation receives no
\* further item, and both return on an infinite source that contains a match.
C32_StopAtFirstMatch ==
    /\ []MatchAnswered
    /\ [][term.pc = "returned" => term' = term]_vars
    /\ (term.pc = "recv" /\ FirstMatchAt(MatchOutput, "even") > 0) ~> (term.pc = "returned")

\* C32 witness: FindFirst(even) on InfiniteStream returned Some(2) after
\* receiving 1 and 2, the generator having a third value to give.
C32_Witness ==
    /\ term.pc = "returned" /\ term.kind = "FindFirst"
    /\ source = [kind |-> "infinite", items |-> <<1, 2, 2>>]
    /\ RunStages = <<>>
    /\ term.out = <<1, 2>>
    /\ term.val = <<2>>

\* C32 witness: AnyMatch(even) after Map(inc) on an infinite source returned
\* true on the first item.
C32_WitnessAnyMatch ==
    /\ term.pc = "returned" /\ term.kind = "AnyMatch"
    /\ source = [kind |-> "infinite", items |-> <<1, 1>>]
    /\ Len(RunStages) = 1
    /\ term.out = <<2>>
    /\ term.val = <<TRUE>>

\* ======================= Stream: Skip, and Take then Skip on one Stream
\* s := NewStream(S); then s.Take(n).Collect() or s.Skip(n).Collect(), and
\* after s.Take(n).Collect() has returned, s.Skip(n).Collect()
StreamSplitInit ==
    /\ NoPool
    /\ heap = <<>>
    /\ streams = <<[arr |-> 0, len |-> 0, cap |-> 0, made |-> <<>>]>>
    /\ lastRun = NoRun
    /\ source \in [kind : {"slice"}, items : RunSlices]
    /\ stageFn = <<>> /\ tasks = <<>> /\ chans = <<>>
    /\ term = NoTerm
    /\ NoLimiter /\ NoPipeline

\* s.Take(n) or s.Skip(n) on the Stream NewStream returned
SplitFirst(f) ==
    /\ stageFn = <<>>
    /\ ChainStage(f)

\* s.Skip(n) on the Stream NewStream returned, after s.Take(n).Collect():
\* append(s.pipeline, ...) on s's own, empty pipeline (line 113)
SkipAfterTake ==
    /\ term.runs = 1 /\ term.pc = "returned"
    /\ Len(streams) = 2
    /\ stageFn[1].op = "Take"
    /\ AppendStage(streams[1], Len(streams))
    /\ stageFn' = Append(stageFn, [op |-> "Skip", arg |-> stageFn[1].arg])
    /\ UNCHANGED <<poolVars, lastRun, source, tasks, chans, term, limiter, pipe>>

\* Collect() on the Stream s.Skip(n) returned
CollectSkipped ==
    /\ term.runs = 1 /\ term.pc = "returned"
    /\ Len(streams) = 3
    /\ Materialize("Collect")

\* the source is NewStream's buffered channel and there is one stage, so no
\* goroutine hands an item to another on an unbuffered channel
StreamSplitNext ==
    \/ \E n \in 0..MaxTake : SplitFirst([op |-> "Take", arg |-> n])
    \/ \E n \in 0..MaxTake : SplitFirst([op |-> "Skip", arg |-> n])
    \/ TerminalCall("Collect")
    \/ SkipAfterTake
    \/ CollectSkipped
    \/ \E j \in DOMAIN tasks :
        \/ TaskPut(j)
        \/ TaskGet(j)
        \/ TaskEnd(j)
    \/ TermHandoff
    \/ TermGet
    \/ TermEnd

SpecStreamSplit == StreamSplitInit /\ [][StreamSplitNext]_vars

\* s without its first min(n, len(s)) items
DropFirst(s, n) == SubSeq(s, Min(n, Len(s)) + 1, Len(s))

\* C33: for every finite sequence S and n >= 0, NewStream(S).Skip(n).Collect()
\* equals S without its first min(n, len(S)) elements, in order; and
\* Take(n).Collect() followed by Skip(n).Collect() on the same slice-backed
\* Stream concatenates to S.
C33_SkipCollect ==
    /\ (term.pc = "returned" /\ Len(RunStages) = 1 /\ RunStages[1].op = "Skip") =>
          term.val = DropFirst(source.items, RunStages[1].arg)
    /\ (term.pc = "returned" /\ term.runs = 2) =>
          term.first \o term.val = source.items

\* C33 witness: on S = <<1, 2, 1>>, Take(1).Collect() gave <<1>> and then
\* Skip(1).Collect() on the same Stream gave <<2, 1>>.
C33_Witness ==
    /\ term.pc = "returned" /\ term.runs = 2
    /\ source.items = <<1, 2, 1>>
    /\ RunStages = <<[op |-> "Skip", arg |-> 1]>>
    /\ term.first = <<1>>
    /\ term.val = <<2, 1>>

\* C33 witnesses: Skip(0) and Skip(n) with n > len(S) as the only call
C33_WitnessZero ==
    /\ term.pc = "returned" /\ term.runs = 1
    /\ RunStages = <<[op |-> "Skip", arg |-> 0]>>
    /\ Len(source.items) = 2 /\ term.val = source.items
C33_WitnessAll ==
    /\ term.pc = "returned" /\ term.runs = 1
    /\ Len(RunStages) = 1 /\ RunStages[1].op = "Skip"
    /\ RunStages[1].arg > Len(source.items)
    /\ Len(source.items) = 2 /\ term.val = <<>>

\* ============================================ Stream: Distinct
\* the items of the slices given to Distinct: three values in two parity
\* classes
DistinctItems == RunItems \cup {3}
DistinctSlices == UNION {[1..n -> DistinctItems] : n \in 0..MaxRunLen}

StreamDistinctInit ==
    /\ NoPool
    /\ heap = <<>>
    /\ streams = <<[arr |-> 0, len |-> 0, cap |-> 0, made |-> <<>>]>>
    /\ lastRun = NoRun
    /\ source \in [kind : {"slice"}, items : DistinctSlices]
    /\ stageFn = <<>> /\ tasks = <<>> /\ chans = <<>>
    /\ term = NoTerm
    /\ NoLimiter /\ NoPipeline

ChainDistinctComparable == ChainStage([op |-> "DistinctComparable", arg |-> "map"])

\* s.Distinct(eq).Distinct(eq): the same closure chained a second time
ChainDistinctAgain ==
    /\ term.runs = 0
    /\ Len(stageFn) = 1
    /\ stageFn[1].op = "Distinct"
    /\ AppendStage(streams[Len(streams)], Len(streams))
    /\ stageFn' = Append(stageFn, stageFn[1])
    /\ UNCHANGED <<poolVars, lastRun, source, tasks, chans, term, limiter, pipe>>

StreamDistinctNext ==
    \/ \E eq \in Equalities : stageFn = <<>> /\ ChainStage([op |-> "Distinct", arg |-> eq])
    \/ stageFn = <<>> /\ ChainDistinctComparable
    \/ ChainDistinctAgain
    \/ TerminalCall("Collect")
    \/ \E j \in DOMAIN tasks :
        \/ TaskPut(j)
        \/ TaskHandoff(j)
        \/ TaskGet(j)
        \/ TaskEnd(j)
    \/ TermHandoff
    \/ TermGet
    \/ TermEnd

SpecStreamDistinct == StreamDistinctInit /\ [][StreamDistinctNext]_vars

\* the first occurrence of each eq-class of s, in order of first occurrence
FirstOccurrences(s, eq) ==
    LET firsts == {i \in DOMAIN s : \A k \in 1..(i - 1) : ~Equal(eq, s[i], s[k])}
        nth(n) == CHOOSE i \in firsts : Cardinality({k \in firsts : k < i}) = n - 1
    IN  [n \in 1..Cardinality(firsts) |-> s[nth(n)]]

\* C34: for every finite sequence S and equivalence relation eq, Distinct(eq)
\* forwards exactly the first occurrence of each eq-class of S, in order of
\* first occurrence; with eq being value equality its output equals that of
\* DistinctComparable, and applying Distinct twice gives the same output as
\* applying it once.
C34_DistinctFirstOccurrences ==
    (Collected /\ Len(RunStages) >= 1) =>
        /\ \A i \in DOMAIN RunStages :
              RunStages[i].op = "Distinct" => RunStages[i].arg = RunStages[1].arg
        /\ term.val = FirstOccurrences(source.items,
                         IF RunStages[1].op = "Distinct" THEN RunStages[1].arg ELSE "equal")

\* C34 witness: Distinct(sameParity) on <<1, 3, 2>> collected <<1, 2>>
C34_Witness ==
    /\ Collected
    /\ source.items = <<1, 3, 2>>
    /\ RunStages = <<[op |-> "Distinct", arg |-> "sameParity"]>>
    /\ term.val = <<1, 2>>

\* C34 witnesses: DistinctComparable, and Distinct(equal) twice, on <<2, 1, 2>>
C34_WitnessComparable ==
    /\ Collected
    /\ source.items = <<2, 1, 2>>
    /\ Len(RunStages) = 1 /\ RunStages[1].op = "DistinctComparable"
    /\ term.val = <<2, 1>>
C34_WitnessTwice ==
    /\ Collected
    /\ source.items = <<2, 1, 2>>
    /\ Len(RunStages) = 2 /\ RunStages[2] = [op |-> "Distinct", arg |-> "equal"]
    /\ term.val = <<2, 1>>

\* ============================================ Stream: back-pressure
MaxBufSize == 1      \* largest size of Buffer(size)
MaxFlowStages == 2   \* stages chained on an unbuffered source

\* RangeStream(1, e), RepeatStream(1, n), and InfiniteStream over a generator
\* that yields 1, 2, ...: all three send on an unbuffered channel
FlowSources ==
    {[kind |-> k, items |-> [i \in 1..n |-> i]] :
        k \in {"range", "infinite"}, n \in 0..(MaxRunLen + 1)}
    \cup {[kind |-> "repeat", items |-> [i \in 1..n |-> 1]] : n \in 1..(MaxRunLen + 1)}

StreamFlowInit ==
    /\ NoPool
    /\ heap = <<>>
    /\ streams = <<[arr |-> 0, len |-> 0, cap |-> 0, made |-> <<>>]>>
    /\ lastRun = NoRun
    /\ source \in FlowSources
    /\ stageFn = <<>> /\ tasks = <<>> /\ chans = <<>>
    /\ term = NoTerm
    /\ NoLimiter /\ NoPipeline

StreamFlowChain ==
    /\ Len(stageFn) < MaxFlowStages
    /\ \/ ChainMap("inc")
       \/ ChainFilter("even")
       \/ ChainTake(1)
       \/ ChainSkip(1)
       \/ ChainDistinct
       \/ ChainWithContext
       \/ \E size \in 0..MaxBufSize : ChainBuffer(size)

StreamFlowNext ==
    \/ StreamFlowChain
    \/ StreamCancel
    \/ \E kind \in {"Collect", "AnyMatch"} : TerminalCall(kind)
    \/ \E j \in DOMAIN tasks :
        \/ TaskPut(j)
        \/ TaskHandoff(j)
        \/ TaskGet(j)
        \/ TaskEnd(j)
        \/ CtxStageCancel(j)
    \/ TermHandoff
    \/ TermGet
    \/ TermEnd

SpecStreamFlow == StreamFlowInit /\ [][StreamFlowNext]_vars

\* the stages of the running pipeline, as indices of tasks
StageTasks == {j \in DOMAIN tasks : j > 1}

\* the sum of the numbers of s
RECURSIVE SumSeq(_)
SumSeq(s) == IF s = <<>> THEN 0 ELSE Head(s) + SumSeq(Tail(s))

\* the items inside the pipeline: received by a stage and neither dropped nor
\* sent on, or lying in the conduit of a Buffer
InFlight ==
    Cardinality({j \in StageTasks : tasks[j].pc = "send"})
    + SumSeq([j \in 1..Len(tasks) |-> IF j > 1 THEN Len(chans[j].buf) ELSE 0])

\* k + m + b1 + ... + bm
FlowBound ==
    Len(RunStages)
    + SumSeq([i \in 1..Len(RunStages) |->
                IF RunStages[i].op = "Buffer" THEN RunStages[i].arg ELSE 0])

\* no stage of the running pipeline drops an item
NothingDropped ==
    /\ \A i \in DOMAIN RunStages : RunStages[i].op \in {"Map", "Buffer", "WithContext"}
    /\ ~ctxDone

\* C35: stream evaluation is bounded by back-pressure: with an unbuffered
\* source, k non-Buffer stages and Buffer stages of capacities b1..bm, the
\* number of items handed over by the source that have been neither dropped
\* by a stage nor received by the terminal operation never exceeds
\* k + m + b1 + ... + bm; Buffer(size) forwards all items unchanged and in
\* order and holds at most size items in its conduit.
C35_BackPressure ==
    (term.runs > 0) =>
        /\ InFlight <= FlowBound
        /\ NothingDropped => tasks[1].count - Len(term.out) = InFlight
        /\ tasks[1].count - Len(term.out) >= InFlight
        /\ \A j \in StageTasks :
              Len(chans[j].buf) <= (IF StageOf(j).op = "Buffer" THEN StageOf(j).arg ELSE 0)
        /\ (Collected /\ Len(RunStages) = 1 /\ RunStages[1].op = "Buffer") =>
              term.val = source.items

\* C35 witness: Map then Buffer(1) on RangeStream(1, 5) with the bound
\* reached: the source has handed over three items more than the terminal
\* operation has received
C35_Witness ==
    /\ term.pc = "recv"
    /\ source.kind = "range"
    /\ RunStages = <<[op |-> "Map", arg |-> "inc"], [op |-> "Buffer", arg |-> 1]>>
    /\ FlowBound = 3
    /\ InFlight = 3
    /\ tasks[1].count - Len(term.out) = 3

\* C35 witness: Buffer(1) alone has forwarded a whole RangeStream to Collect
C35_WitnessBufferCollect ==
    /\ Collected
    /\ RunStages = <<[op |-> "Buffer", arg |-> 1]>>
    /\ term.val = <<1, 2, 3, 4>>

\* ------------------------------------ ReduceParallel: the number of chunks
\* ReduceParallel went past its early returns and started its tasks
ReduceParSplit == mainPc \in {"wait", "returned"} /\ wk # <<>>

\* the chunks handed to the tasks, one after the other
RECURSIVE ConcatChunks(_, _)
ConcatChunks(w, i) == IF i > Len(w) THEN <<>> ELSE w[i].val \o ConcatChunks(w, i + 1)

\* the chunks are contiguous and in order, each folded from identity by its
\* own task, the partial results folded left to right in chunk order
ReduceParChunksInOrder ==
    /\ ConcatChunks(wk, 1) = slice
    /\ \A i \in DOMAIN wk : wk[i].idx = i /\ wk[i].val # <<>>
    /\ \A i \in DOMAIN wk :
          wk[i].pc = "done" => results[i] = FoldFrom(wk[i].val, fn, fn.identity, 1)
    /\ mainPc = "returned" =>
          ret.val = FoldFrom([i \in DOMAIN wk |-> FoldFrom(wk[i].val, fn, fn.identity, 1)],
                             fn, fn.identity, 1)

\* C36: for N >= W >= 1 and N >= 2, ReduceParallel splits the input into
\* exactly W contiguous chunks whose concatenation in order is the input,
\* folds each chunk from the identity value in its own task, and then folds
\* the W partial results left to right in chunk order; in particular no more
\* than W chunk-fold tasks are ever started.
C36_ExactlyWChunks ==
    ReduceParSplit =>
        /\ Len(wk) = config.WorkerCount
        /\ ReduceParChunksInOrder

\* the part of C36 that holds: contiguous chunks folded in order, at least W
\* and fewer than 2W of them
C36_ChunksFoldedInOrder ==
    ReduceParSplit =>
        /\ Len(wk) >= config.WorkerCount
        /\ Len(wk) < 2 * config.WorkerCount
        /\ ReduceParChunksInOrder

\* --------------------------------------- RateLimiter: the bucket's bounds
\* C37: for a RateLimiter created with rps = r >= 1, the token count is r
\* right after creation and stays within 0..r in every reachable state; a
\* refill tick adds exactly one token when the count is below r, leaves the
\* count unchanged when it is r, and never blocks the refill task.
C37_BucketWithinBounds ==
    /\ limiter.tokens = limiter.rps
    /\ [](limiter.tokens \in 0..limiter.rps)
    /\ [](limiter.pending = 1 => ENABLED LimiterRefill)
    /\ [][(limiter.pending = 1 /\ limiter'.pending = 0) =>
            limiter'.tokens = IF limiter.tokens < limiter.rps
                              THEN limiter.tokens + 1 ELSE limiter.tokens]_vars

\* C37 witnesses: a tick was received with the bucket full, and it stayed
\* full; a tick was received after a Wait had taken a token, and the bucket
\* is full again
C37_Witness ==
    /\ limiter.rps >= 2
    /\ limiter.ticks = 1 /\ limiter.pending = 0
    /\ limiter.granted = 0 /\ limiter.waiting = 0
    /\ limiter.tokens = limiter.rps
C37_WitnessRefilled ==
    /\ limiter.rps >= 2
    /\ limiter.ticks = 1 /\ limiter.pending = 0
    /\ limiter.granted = 1
    /\ limiter.tokens = limiter.rps

\* ------------------------------------- RateLimiter: every Wait is served
\* a tick that never reaches ticker.C
LimiterTickLost ==
    /\ limiter.rps > 0
    /\ limiter' = [limiter EXCEPT !.ticks = Min(@ + 1, MaxTicks + MaxWaits)]
    /\ UNCHANGED <<poolVars, buildVars, runVars, pipe>>

\* lines 440-443: the ticker keeps firing for as long as the limiter lives;
\* the count of ticks stops at MaxTicks + MaxWaits, the ticks do not
LimiterTickOn ==
    /\ limiter.rps > 0
    /\ limiter' = [limiter EXCEPT !.ticks = Min(@ + 1, MaxTicks + MaxWaits), !.pending = 1]
    /\ UNCHANGED <<poolVars, buildVars, runVars, pipe>>

LimiterLiveNext ==
    \/ LimiterTickOn
    \/ LimiterRefill
    \/ LimiterCancel
    \/ WaitCall
    \/ WaitToken
    \/ WaitCtx

\* the ticks keep firing, the refill goroutine and the blocked callers are
\* scheduled
SpecLimiterLive ==
    /\ LimiterInit
    /\ [][LimiterLiveNext]_vars
    /\ WF_vars(LimiterTickOn)
    /\ WF_vars(LimiterRefill)
    /\ WF_vars(WaitToken)
    /\ WF_vars(WaitCtx)

\* C38: if refill ticks keep firing and the callers' contexts are never
\* cancelled, every call to RateLimiter.Wait eventually returns success, for
\* any finite number of concurrent callers each waiting on the same limiter
\* (the k-th call made has returned once k calls have been granted).
C38_EveryWaitReturns ==
    \A k \in 1..MaxWaits :
        (limiter.granted + limiter.waiting >= k)
            ~> (limiter.granted >= k \/ limiter.ctxDone)

\* C38 witness: on a limiter of rps 1 every one of MaxWaits calls has returned
\* success, which took more ticks than SpecLimiter counts
C38_Witness ==
    /\ limiter.rps = 1
    /\ limiter.granted = MaxWaits
    /\ limiter.refused = 0 /\ ~limiter.ctxDone
    /\ limiter.ticks > MaxTicks

\* C38 witness: several callers blocked at once on the empty bucket
C38_WitnessBlocked ==
    /\ limiter.waiting >= 3
    /\ limiter.tokens = 0
    /\ ~limiter.ctxDone

\* ------------------------------ MapWithContext: the goroutines it started
\* the call started its goroutines and has returned, and no goroutine it
\* started can take a step any more (the context is not cancelled after the
\* return): whatever has not returned by now never will
MapCtxAtRest == mainPc = "returned" /\ Len(slice) > 0 /\ ~ENABLED MapCtxNext

\* workers, dispatcher and watcher have all returned
MapCtxAllGone == WgDone /\ jobsClosed /\ done

\* C39: every goroutine started by MapWithContext (the workers, the
\* dispatcher and the wait-group watcher) eventually terminates after the
\* call has returned, for every WorkerCount >= 1, every BufferSize >= 0 and
\* every combination of mapper errors and cancellation: no worker blocks
\* forever sending on the error channel and the dispatcher does not block
\* forever sending a job.
C39_GoroutinesTerminate == MapCtxAtRest => MapCtxAllGone

\* the two halves of C39, each violated on its own
C39_NoWorkerStuckOnErrors ==
    MapCtxAtRest => \A w \in DOMAIN wk : wk[w].pc # "senderr"
C39_DispatcherReturns == MapCtxAtRest => jobsClosed

\* the part of C39 that holds: a call without mapper error and without
\* cancellation leaves no goroutine behind
C39_CleanRunsTerminate == (MapCtxAtRest /\ fn.fail = {} /\ ~ctxDone) => MapCtxAllGone

\* ================== MapParallelWithConfig, FilterParallel, ForEachParallel
\* a call of one of the three; fn tells which: a Mapper, a Predicate, or the
\* action of ForEachParallel
\* which goroutine can step never depends on the items' values (the channels
\* carry indices or items that no guard reads), so one slice of each length
\* stands for all of them
PoolSlices == {[i \in 1..n |-> (i % MaxVal) + 1] : n \in 0..MaxLen}
PoolInit ==
    /\ MapParInit \/ FilterParInit \/ ForEachInit
    /\ slice \in PoolSlices

PoolNext ==
    \/ fn \in Mappers /\ MapParNext
    \/ fn \in Predicates /\ FilterParNext
    \/ fn = "action" /\ ForEachNext

SpecPool == PoolInit /\ [][PoolNext]_vars

\* every goroutine the call started has returned: the workers, the
\* dispatcher (its deferred close(jobs) has run) and FilterParallel's result
\* closer (close(results) has run)
PoolAllGone ==
    /\ WgDone
    /\ wk # <<>> => jobsClosed
    /\ (wk # <<>> /\ fn \in Predicates) => resultsClosed

\* the work a call still has to do, counted so that every step of every
\* goroutine lowers it: an index costs most before it is sent, less in the
\* jobs channel, less in a worker's hands, less as a result on its way to the
\* collector; a goroutine that has not returned and a channel that is not
\* closed cost one each
PoolWorkers(pcs) == Cardinality({w \in DOMAIN wk : wk[w].pc \in pcs})
PoolUnsent ==
    IF disp # 0 THEN Len(slice) + 1 - disp
    ELSE IF mainPc = "start" THEN Len(slice) ELSE 0
PoolMeasure ==
    (CASE mainPc = "start" -> config.WorkerCount + 2
       [] mainPc = "returned" -> 0
       [] OTHER -> 1)
    + 10 * PoolUnsent + 8 * Len(jobs)
    + 7 * PoolWorkers({"work", "call"}) + 5 * PoolWorkers({"send"})
    + PoolWorkers({"recv"}) + 2 * Len(results)
    + (IF jobsClosed THEN 0 ELSE 1) + (IF resultsClosed THEN 0 ELSE 1)

\* C40: MapParallelWithConfig, FilterParallel and ForEachParallel are
\* deadlock-free: for every non-empty input, WorkerCount >= 1 and
\* BufferSize >= 0 (unbuffered channels included), given a terminating
\* per-item function the call eventually returns and every goroutine it
\* started (workers, dispatcher, result closer) has terminated or terminates.
\* Stated without a scheduler: the call can stop only when it has returned
\* with every goroutine gone, and it cannot run forever, because every step
\* lowers a measure that never falls below zero.
C40_PoolCallsReturn ==
    /\ [](~ENABLED PoolNext => (mainPc = "returned" /\ PoolAllGone))
    /\ [](PoolMeasure >= 0)
    /\ [][PoolMeasure' < PoolMeasure]_vars

\* C40 witnesses: each of the three calls has returned from a run with
\* unbuffered channels, two workers and three items
C40_Witness ==
    /\ mainPc = "returned" /\ fn \in Mappers
    /\ config = [WorkerCount |-> 2, BufferSize |-> 0]
    /\ Len(slice) = 3 /\ Len(wk) = 2 /\ PoolAllGone
C40_WitnessFilter ==
    /\ mainPc = "returned" /\ fn \in Predicates
    /\ config = [WorkerCount |-> 2, BufferSize |-> 0]
    /\ Len(slice) = 3 /\ Len(wk) = 2 /\ PoolAllGone
C40_WitnessForEach ==
    /\ mainPc = "returned" /\ fn = "action"
    /\ config = [WorkerCount |-> 2, BufferSize |-> 0]
    /\ Len(slice) = 3 /\ Len(wk) = 2 /\ PoolAllGone

====
